---- MODULE Spec2Model ----
(***************************************************************************)
(* A model of the OTR plugin of poezio (plugins/otr.py): the session       *)
(* registry (Plugin.contexts), the session state machine                   *)
(* (PoezioContext.setState), the incoming and outgoing message hooks and   *)
(* the /otr commands.  The encryption engine (potr) and the tabs of the    *)
(* client are collaborators: the engine is modelled by the outcomes its    *)
(* receive/send/disconnect operations have, the tabs by the fields the     *)
(* plugin reads and writes (name, locked_resource, state, transcript).     *)
(***************************************************************************)
EXTENDS Integers, Sequences, FiniteSets, TLC

(***************************************************************************)
(* Addresses.  A JID is <<bare, resource>>; the resource "" is a bare JID. *)
(***************************************************************************)
Bare(j) == j[1]
Resource(j) == j[2]
BareJid(j) == <<j[1], "">>

BobR1 == <<"bob", "r1">>
BobR2 == <<"bob", "r2">>
BobBare == <<"bob", "">>
\* another contact, with one resource
EveR1 == <<"eve", "r1">>
NoJid == <<"", "">>

\* the full addresses incoming messages come from
Senders == {BobR1, BobR2}

STATE_PLAINTEXT == "PLAINTEXT"
STATE_ENCRYPTED == "ENCRYPTED"
STATE_FINISHED == "FINISHED"
States == {STATE_PLAINTEXT, STATE_ENCRYPTED, STATE_FINISHED}

\* the fingerprint of the key a peer negotiates with; NoKey is theirPubkey = None
NoKey == "nokey"
PeerKey == "F1"

\* a deleted (absent) field of a stanza
Absent == <<"(absent)">>

(***************************************************************************)
(* Tabs.  "dyn" is the DynamicConversationTab of the contact, named by the *)
(* bare JID, whose locked_resource changes as the contact's resources      *)
(* write; a tab named otherwise would be a ConversationTab or PrivateTab   *)
(* named by a full JID: "eve" is the ConversationTab of eve/r1, in which    *)
(* the user types nothing.                                                 *)
(***************************************************************************)
Tabs == {"dyn"}
AllTabs == Tabs \cup {"eve"}
NoTab == "notab"
NoLock == "nolock"
Locks == {NoLock, "r1", "r2"}

TabName(t) == IF t = "dyn" THEN BobBare ELSE IF t = "eve" THEN EveR1 ELSE NoJid
IsDynamic(t) == t = "dyn"

VARIABLES
    contexts,   \* Plugin.contexts: full JID -> session (state, log, flags, key)
    trusts,     \* PoezioAccount.trusts: <<bare, fingerprint>> -> trust label
    locked,     \* locked_resource of the dynamic tab
    tabstate,   \* tab.state of each tab: "current", "normal" or "private"
    ev,         \* the handler that ran last: its inputs and what it resolved
    added,      \* the transcript entries that handler added, in order
    sent,       \* what that handler handed to the transport, in order
    stanza,     \* the stanza that handler was given, as it left it
    calls,      \* the setState calls made while that handler ran, in order
    timers,     \* the delayed events armed and not yet fired, in arming order
    privkey,    \* PoezioAccount.privkey, the key in memory
    keyfile,    \* the content of the key file <account>.key3
    trustfile   \* the lines of the trust file <account>.fpr

\* what the hooks leave alone: the trust table, its file and the scheduler
store == <<trusts, timers, trustfile>>

vars == <<contexts, trusts, locked, tabstate, ev, added, sent, stanza, calls,
          timers, privkey, keyfile, trustfile>>

(***************************************************************************)
(* POLICY_FLAGS and PoezioContext.getPolicy                                *)
(***************************************************************************)
POLICY_FLAGS ==
    [ALLOW_V1 |-> FALSE, ALLOW_V2 |-> TRUE, REQUIRE_ENCRYPTION |-> FALSE,
     SEND_TAG |-> TRUE, WHITESPACE_START_AKE |-> TRUE, ERROR_START_AKE |-> TRUE]

getPolicy(ctx, key) ==
    IF key \in DOMAIN ctx.flags THEN ctx.flags[key] ELSE FALSE

policyOtrEnabled(ctx) == getPolicy(ctx, "ALLOW_V2") \/ getPolicy(ctx, "ALLOW_V1")

(***************************************************************************)
(* The per-tab configuration get_context reads when it creates a session:  *)
(* the section of the configuration named by the JID.  The section of      *)
(* bob/r1 is one of three, those of the other addresses are fixed.         *)
(***************************************************************************)
Config(v2, v1, lg, pol) ==
    [allow_v2 |-> v2, allow_v1 |-> v1, log |-> lg, encryption_policy |-> pol]

DefaultConfig == Config("true", "false", "false", "ondemand")

SessionConfigs(jid) ==
    IF jid = BobR1 THEN {DefaultConfig, Config("true", "false", "true", "ondemand"),
                         Config("false", "false", "true", "ondemand")}
    ELSE IF jid = BobR2 THEN {Config("true", "false", "true", "always")}
    ELSE {DefaultConfig}

NewContext(cfg) ==
    [ state |-> STATE_PLAINTEXT,
      log   |-> IF cfg.log # "false" THEN 1 ELSE 0,
      flags |-> [POLICY_FLAGS EXCEPT !.ALLOW_V2 = (cfg.allow_v2 # "false"),
                                     !.ALLOW_V1 = (cfg.allow_v1 = "true")],
      key   |-> NoKey ]

\* a get_context that constructs a session on every call
get_contextAnew(c, jid, cfg) ==
    [k \in DOMAIN c \cup {jid} |-> IF k = jid THEN NewContext(cfg) ELSE c[k]]

\* Plugin.get_context on the registry c: the registry afterwards
get_context(c, jid, cfg) ==
    IF jid \in DOMAIN c
    THEN c
    ELSE [k \in DOMAIN c \cup {jid} |-> IF k = jid THEN NewContext(cfg) ELSE c[k]]

(***************************************************************************)
(* hl(tab) and the tab lookup of setState                                  *)
(***************************************************************************)
\* a highlight that does not spare the focused tab
hlAlways(ts, t) == [ts EXCEPT ![t] = "private"]

hl(ts, t) == IF ts[t] # "current" THEN [ts EXCEPT ![t] = "private"] ELSE ts

get_tab_by_name(name) ==
    IF \E t \in AllTabs : TabName(t) = name
    THEN CHOOSE t \in AllTabs : TabName(t) = name
    ELSE NoTab

get_dynamic_tab_by_name(name) ==
    IF \E t \in AllTabs : IsDynamic(t) /\ TabName(t) = name
    THEN CHOOSE t \in AllTabs : IsDynamic(t) /\ TabName(t) = name
    ELSE NoTab

\* a lookup that takes the dynamic tab whatever resource it is locked to
StateTabAnyLock(peer) ==
    LET tab == get_tab_by_name(peer)
    IN  IF tab # NoTab THEN tab ELSE get_dynamic_tab_by_name(BareJid(peer))

\* the tab setState posts its notice to, NoTab when there is none
StateTab(peer) ==
    LET tab == get_tab_by_name(peer)
    IN  IF tab # NoTab THEN tab
        ELSE LET dtab == get_dynamic_tab_by_name(BareJid(peer))
             IN  IF dtab # NoTab /\ ~(locked = Resource(peer)) THEN NoTab ELSE dtab

(***************************************************************************)
(* Trust: Context.getCurrentTrust looks the session's key up under its     *)
(* trustName, the bare JID of the peer.                                    *)
(***************************************************************************)
\* a trust name that is the resource of the peer
trustNameOfResource(peer) == Resource(peer)

trustName(peer) == Bare(peer)

getCurrentTrust(tr, peer, ctx) ==
    IF ctx.key = NoKey THEN ""
    ELSE IF <<trustName(peer), ctx.key>> \in DOMAIN tr
         THEN tr[<<trustName(peer), ctx.key>>] ELSE ""

Entry(tab, kind, typ, arg) == [tab |-> tab, kind |-> kind, typ |-> typ, arg |-> arg]

StateNoticeFromPlaintextOnly(old, newstate) ==
    IF old = STATE_ENCRYPTED
    THEN IF newstate = STATE_ENCRYPTED THEN "refreshed"
         ELSE IF newstate = STATE_FINISHED \/ newstate = STATE_PLAINTEXT THEN "ended"
         ELSE "none"
    ELSE IF old = STATE_PLAINTEXT /\ newstate = STATE_ENCRYPTED THEN "started" ELSE "none"

\* the notice setState posts for a transition old -> newstate ("none": no notice)
StateNotice(old, newstate) ==
    IF old = STATE_ENCRYPTED
    THEN IF newstate = STATE_ENCRYPTED THEN "refreshed"
         ELSE IF newstate = STATE_FINISHED \/ newstate = STATE_PLAINTEXT THEN "ended"
         ELSE "none"
    ELSE IF newstate = STATE_ENCRYPTED THEN "started" ELSE "none"

\* a notice that takes an entry of the table for trust, whatever its label
NoticeArgAnyEntry(kind, trust, key) ==
    IF kind = "ended" THEN <<>>
    ELSE IF <<"bob", key>> \in DOMAIN trusts THEN <<"trusted">> ELSE <<"untrusted", key>>

\* the text of a started/refreshed notice: trusted, or untrusted with the key
NoticeArg(kind, trust, key) ==
    IF kind = "ended" THEN <<>>
    ELSE IF trust # "" THEN <<"trusted">> ELSE <<"untrusted", key>>

(***************************************************************************)
(* A world is what one handler works on: the registry, the tab states and  *)
(* what the handler has produced so far.                                   *)
(***************************************************************************)
World(c) ==
    [ctxs |-> c, ts |-> tabstate, added |-> <<>>, sent |-> <<>>, calls |-> <<>>,
     redraw |-> FALSE, privkey |-> privkey, keyfile |-> keyfile]

\* one setState call: the session, its state before, the state asked for,
\* the tab found, and whether the call redrew the screen (lines 316-318)
Call(peer, old, newstate, tab, redraw) ==
    [peer |-> peer, old |-> old, new |-> newstate, tab |-> tab, redraw |-> redraw]

\* a setState that posts nothing and never reaches the engine's setState
setStateKeepsState(w, peer, newstate) ==
    [w EXCEPT !.calls = Append(@, Call(peer, w.ctxs[peer].state, newstate, StateTab(peer),
                                        StateTab(peer) # NoTab))]

\* PoezioContext.setState
setState(w, peer, newstate) ==
    LET ctx == w.ctxs[peer]
        tab == StateTab(peer)
        kind == StateNotice(ctx.state, newstate)
        post == tab # NoTab /\ kind # "none"
    IN  [ ctxs   |-> [w.ctxs EXCEPT ![peer].state = newstate],
          ts     |-> IF post THEN hl(w.ts, tab) ELSE w.ts,
          added  |-> IF post
                     THEN Append(w.added,
                                 Entry(tab, kind, ctx.log,
                                       NoticeArg(kind, getCurrentTrust(trusts, peer, ctx), ctx.key)))
                     ELSE w.added,
          sent   |-> w.sent,
          calls  |-> Append(w.calls, Call(peer, ctx.state, newstate, tab, tab # NoTab)),
          redraw |-> w.redraw \/ tab # NoTab,
          privkey |-> w.privkey,
          keyfile |-> w.keyfile ]

(***************************************************************************)
(* The key store of the account: PoezioAccount.load_privkey, save_privkey  *)
(* and drop_privkey on the key file, and the engine's Account.getPrivkey,  *)
(* which loads the key and, when there is none, generates and saves one.   *)
(***************************************************************************)
NoPrivkey == "nokey"
NoFile == "nofile"
NewKey == "K1"
\* a key file written earlier, and one that parsePrivateKey cannot parse
OldKey == "K0"
BadKeyFile == "badfile"

\* the key load_privkey returns: None when the file cannot be read or parsed
load_privkey(file) == IF file \in {NoFile, BadKeyFile} THEN NoPrivkey ELSE file

\* the key file opened 'wb': an existing file is replaced
save_privkeyOverwrites(file, key) == key

\* the key file after save_privkey: opened 'xb', so an existing file stays
save_privkey(file, key) == IF file = NoFile THEN key ELSE file

getPrivkey(w) ==
    LET loaded == IF w.privkey = NoPrivkey THEN load_privkey(w.keyfile) ELSE w.privkey
    IN  IF loaded # NoPrivkey
        THEN [w EXCEPT !.privkey = loaded]
        ELSE [w EXCEPT !.privkey = NewKey, !.keyfile = save_privkey(w.keyfile, NewKey)]

(***************************************************************************)
(* The trust store of the account.  The trust file is a sequence of lines, *)
(* a line a sequence of tokens: "\t", "\n", and words, a word standing for *)
(* a run of characters other than these two.  A field of the table is a    *)
(* word, the empty field the empty string.                                 *)
(***************************************************************************)
TAB == "\t"
NL == "\n"
AccountName == "alice"
Protocol == "xmpp"
NoTrustFile == <<"(no file)">>
NoTrusts == [p \in {} |-> ""]

Field(s) == IF s = "" THEN <<>> ELSE <<s>>
Text(f) == IF f = <<>> THEN "" ELSE f[1]

RECURSIVE Join(_)
\* '\t'.join(fields)
Join(fields) ==
    IF Len(fields) = 0 THEN <<>>
    ELSE IF Len(fields) = 1 THEN Field(fields[1])
    ELSE Field(fields[1]) \o <<TAB>> \o Join(Tail(fields))

\* a line written without its newline
TrustLineUnterminated(uid, name, fpr, trustVal) == Join(<<uid, name, Protocol, fpr, trustVal>>)

\* the line save_trusts writes for one entry
TrustLine(uid, name, fpr, trustVal) == Join(<<uid, name, Protocol, fpr, trustVal>>) \o <<NL>>

\* the order save_trusts takes the entries of the table in: lines do not
\* read each other, so one order stands for all
TrustOrder == << <<"bob", "F1">>, <<"bob", "F2">>, <<"eve", "F1">>, <<"eve", "F2">> >>
InTable(tr, k) == k \in DOMAIN tr
TrustKeys(tr) == SelectSeq(TrustOrder, LAMBDA k : InTable(tr, k))

\* the content save_trusts writes: one line for each fingerprint of each uid
TrustLines(tr, name) ==
    [i \in 1..Len(TrustKeys(tr)) |->
        TrustLine(TrustKeys(tr)[i][1], name, TrustKeys(tr)[i][2], tr[TrustKeys(tr)[i]])]

\* a save that appends to the file instead of rewriting it
save_trustsAppends(tr, file, name, ioFails) ==
    IF ioFails THEN file
    ELSE (IF file = NoTrustFile THEN <<>> ELSE file) \o TrustLines(tr, name)

\* PoezioAccount.save_trusts; ioFails: the file cannot be opened for writing
save_trusts(tr, file, name, ioFails) ==
    IF ioFails THEN file ELSE TrustLines(tr, name)

\* the table with the label of (key, fingerprint) set
PutTrust(tr, key, fingerprint, trustLevel) ==
    [k \in DOMAIN tr \cup {<<key, fingerprint>>} |->
        IF k = <<key, fingerprint>> THEN trustLevel ELSE tr[k]]

\* a store: the table in memory and the file
Store(tr, file) == [trusts |-> tr, file |-> file]

\* Account.setTrust: sets the label and saves the table
setTrust(st, key, fingerprint, trustLevel, name, ioFails) ==
    LET tr == PutTrust(st.trusts, key, fingerprint, trustLevel)
    IN  Store(tr, save_trusts(tr, st.file, name, ioFails))

RECURSIVE Split(_)
\* s.split('\t')
Split(s) ==
    IF \A i \in 1..Len(s) : s[i] # TAB THEN <<s>>
    ELSE LET i == CHOOSE i \in 1..Len(s) : s[i] = TAB /\ \A k \in 1..(i - 1) : s[k] # TAB
         IN  <<SubSeq(s, 1, i - 1)>> \o Split(SubSeq(s, i + 1, Len(s)))

\* line[:-1]
ChopLast(line) == SubSeq(line, 1, Len(line) - 1)

\* safeJID(ctx).bare of the text of a field
BareOfText(s) == IF s = "bob/r1" THEN "bob" ELSE s

\* a filter that takes the lines of every account
LineIsOursAnyAccount(acc, proto, name) == proto = Protocol

\* the negation of 'acc != self.name or proto != 'xmpp'' (line 353)
LineIsOurs(acc, proto, name) == acc = name /\ proto = Protocol

RECURSIVE LoadLines(_, _, _, _, _)
\* a load that skips a line it cannot unpack and goes on
OnMalformedSkips(st, lines, i, name, saveFails) == LoadLines(st, lines, i + 1, name, saveFails)

\* the unpacking of a line that has not five fields raises, which leaves
\* the loop for the except clause (lines 359-360): the load ends there
OnMalformed(st, lines, i, name, saveFails) == st

\* the loop of load_trusts from the line i on; every setTrust saves the table
\* read so far, while the lines come from the content read at the open
LoadLines(st, lines, i, name, saveFails) ==
    IF i > Len(lines) THEN st
    ELSE LET fields == Split(ChopLast(lines[i]))
         IN  IF Len(fields) # 5 THEN OnMalformed(st, lines, i, name, saveFails)
             ELSE LET jid == BareOfText(Text(fields[1]))
                  IN  IF ~LineIsOurs(Text(fields[2]), Text(fields[3]), name)
                      THEN LoadLines(st, lines, i + 1, name, saveFails)
                      ELSE IF jid = ""
                      THEN LoadLines(st, lines, i + 1, name, saveFails)
                      ELSE LoadLines(setTrust(st, jid, Text(fields[4]), Text(fields[5]),
                                              name, saveFails),
                                     lines, i + 1, name, saveFails)

\* PoezioAccount.load_trusts of a new account; a file that cannot be opened
\* loads nothing
load_trusts(file, name, saveFails) ==
    IF file = NoTrustFile THEN Store(NoTrusts, file)
    ELSE LoadLines(Store(NoTrusts, file), file, 1, name, saveFails)

(***************************************************************************)
(* The encryption engine (potr.context.Context), by what its operations    *)
(* do to the session and hand to the transport.                            *)
(***************************************************************************)
Wire(to, kind, txt) == [to |-> to, kind |-> kind, txt |-> txt]

\* Context.disconnect: tells the peer when a session is encrypted, then
\* sets the state to PLAINTEXT through setState, whatever the state was
disconnect(w, peer) ==
    LET w1 == IF w.ctxs[peer].state = STATE_ENCRYPTED
              THEN [w EXCEPT !.sent = Append(@, Wire(peer, "disconnect", <<>>))]
              ELSE w
    IN  setState(w1, peer, STATE_PLAINTEXT)

(***************************************************************************)
(* The bodies of incoming messages, by what the engine's parser makes of   *)
(* them.  txt is the text carried; fin: an AKE message that completes the  *)
(* key exchange, or a data message carrying the disconnect TLV; ok: a data *)
(* message that decrypts; ign: a data message flagged ignore-unreadable.   *)
(***************************************************************************)
Body(t, txt, fin, ok, ign) == [t |-> t, txt |-> txt, fin |-> fin, ok |-> ok, ign |-> ign]

Markup == <<"&lt;br&gt;", "<br/>">>
\* a text the rich-text conversion fails on
Broken == <<"&lt;br&gt;", "<br>">>
\* the texts that come with every setting of the formatting options
OptTexts == {Markup, Broken}
DataTexts == { <<>>, <<"a">>, Markup, <<"&amp;", "<br>">> }

Bodies ==
    { Body("plain", <<"a">>, FALSE, TRUE, FALSE),
      Body("tagged", <<"a">>, FALSE, TRUE, FALSE),
      Body("query", <<>>, FALSE, TRUE, FALSE),
      Body("garbage", <<>>, FALSE, TRUE, FALSE),
      Body("error", <<"e">>, FALSE, TRUE, FALSE),
      Body("ake", <<>>, FALSE, TRUE, FALSE),
      Body("ake", <<>>, TRUE, TRUE, FALSE),
      Body("data", <<>>, TRUE, TRUE, TRUE),
      Body("data", <<"a">>, TRUE, TRUE, FALSE),
      Body("data", <<"a">>, FALSE, FALSE, FALSE),
      Body("data", <<"a">>, FALSE, FALSE, TRUE) }
    \cup { Body("data", t, FALSE, TRUE, FALSE) : t \in DataTexts }

\* the bodies that move a session, and a plain one
LifeBodies ==
    { Body("plain", <<"a">>, FALSE, TRUE, FALSE),
      Body("ake", <<>>, TRUE, TRUE, FALSE),
      Body("data", <<>>, TRUE, TRUE, TRUE) }

\* the raw text of a body, as msg['body'] holds it
Raw(body) ==
    IF body.t = "plain" THEN body.txt
    ELSE IF body.t = "tagged" THEN body.txt \o <<"(tag)">>
    ELSE <<"?OTR", body.t>>

Result(w, out, arg) == [w |-> w, out |-> out, arg |-> arg]

\* the fingerprint of the key the peer proves in a key exchange: the one
\* the body names, PeerKey when it names none
KeyOf(body) == IF body.txt = <<>> THEN PeerKey ELSE body.txt[1]

\* Context.receiveMessage.  Outcomes: "text" (decrypted text, empty for a
\* protocol message), or the exception raised.  py3k: the engine raises
\* NotOTRMessage where UnencryptedMessage is due (otr.py, lines 498-501).
receiveMessage(w, peer, body, py3k) ==
    LET ctx == w.ctxs[peer]
        unwanted == ctx.state # STATE_PLAINTEXT \/ getPolicy(ctx, "REQUIRE_ENCRYPTION")
        started == IF getPolicy(ctx, "ALLOW_V2")
                   THEN [getPrivkey(w) EXCEPT !.sent = Append(@, Wire(peer, "ake", <<>>))]
                   ELSE w
    IN  IF ~policyOtrEnabled(ctx) THEN Result(w, "NotOTRMessage", Raw(body))
        ELSE CASE body.t = "garbage" -> Result(w, "Exception", <<>>)
          [] body.t = "query" -> Result(started, "text", <<>>)
          [] body.t = "tagged" ->
                IF unwanted /\ ~py3k
                THEN Result(started, "UnencryptedMessage", body.txt)
                ELSE Result(started, "NotOTRMessage", body.txt)
          [] body.t = "plain" ->
                IF unwanted /\ ~py3k
                THEN Result(w, "UnencryptedMessage", body.txt)
                ELSE Result(w, "NotOTRMessage", Raw(body))
          [] body.t = "error" -> Result(w, "ErrorReceived", body.txt)
          [] body.t = "ake" ->
                IF ~getPolicy(ctx, "ALLOW_V2") THEN Result(w, "text", <<>>)
                ELSE IF body.fin
                THEN Result(setState([getPrivkey(w) EXCEPT !.ctxs[peer].key = KeyOf(body)],
                                     peer, STATE_ENCRYPTED), "text", <<>>)
                ELSE Result(started, "text", <<>>)
          [] body.t = "data" ->
                IF ctx.state # STATE_ENCRYPTED
                THEN LET w1 == [w EXCEPT !.sent = Append(@, Wire(peer, "error", <<>>))]
                     IN  IF body.ign THEN Result(w1, "text", <<>>)
                         ELSE Result(w1, "NotEncryptedError", <<>>)
                ELSE IF ~body.ok
                THEN IF body.ign THEN Result(w, "text", <<>>)
                     ELSE Result(w, "InvalidParameterError", <<>>)
                ELSE Result(IF body.fin THEN setState(w, peer, STATE_FINISHED) ELSE w,
                            "text", body.txt)

\* Context.sendMessage(0, text) of an encrypted session: the ciphertext is
\* injected to the session's peer
sendMessage(w, peer, text) ==
    [w EXCEPT !.sent = Append(@, Wire(peer, "data", text))]

(***************************************************************************)
(* Formatting of decrypted text (on_conversation_msg, lines 562-581).  A   *)
(* text is a sequence of tokens: plain characters, entities and tags.      *)
(***************************************************************************)
UnescapeToken(tok) ==
    IF tok = "&amp;" THEN "&" ELSE IF tok = "&lt;br&gt;" THEN "<br>" ELSE tok

NewlineToken(tok) == IF tok = "<br/>" \/ tok = "<br>" THEN "\n" ELSE tok

XhtmlToken(tok) == IF tok = "<br/>" THEN "\n" ELSE UnescapeToken(tok)

\* html.unescape(body)
unescape(txt) == [i \in 1..Len(txt) |-> UnescapeToken(txt[i])]

\* body.replace('<br/>', '\n').replace('<br>', '\n')
replace_br(txt) == [i \in 1..Len(txt) |-> NewlineToken(txt[i])]

\* xhtml.xhtml_to_poezio_colors(body, force=True) raises on a document that
\* is not valid XML: an unclosed <br> makes it invalid (lines 141-144)
XhtmlValid(txt) == \A i \in 1..Len(txt) : txt[i] # "<br>"

xhtml_to_poezio_colors(txt) == [i \in 1..Len(txt) |-> XhtmlToken(txt[i])]

FormatOpts == [decode_xhtml : BOOLEAN, decode_entities : BOOLEAN, decode_newlines : BOOLEAN]
DefaultOpts == [decode_xhtml |-> TRUE, decode_entities |-> TRUE, decode_newlines |-> TRUE]

\* a fallback that converts the line breaks before it unescapes
FallbackNewlinesFirst(txt, opts) ==
    LET b1 == IF opts.decode_newlines THEN replace_br(txt) ELSE txt
    IN  IF opts.decode_entities THEN unescape(b1) ELSE b1

\* the two optional steps of lines 573-576 and 578-581, in their order
Fallback(txt, opts) ==
    LET b1 == IF opts.decode_entities THEN unescape(txt) ELSE txt
    IN  IF opts.decode_newlines THEN replace_br(b1) ELSE b1

Format(txt, opts) ==
    IF opts.decode_xhtml /\ XhtmlValid(txt)
    THEN xhtml_to_poezio_colors(txt)
    ELSE Fallback(txt, opts)

(***************************************************************************)
(* Plugin.on_conversation_msg: what the hook does with each outcome of     *)
(* receiveMessage.  ctx is the session after the engine has run.           *)
(***************************************************************************)
Branch(entries, strip, mark) == [entries |-> entries, strip |-> strip, mark |-> mark]

\* except UnencryptedMessage (lines 466-481)
UnencryptedBranch(arg, tab) ==
    Branch(<<Entry(tab, "not_encrypted", 0, arg)>>, TRUE, TRUE)

\* except ErrorReceived (lines 482-496)
ErrorBranch(arg, tab) ==
    Branch(<<Entry(tab, "error_received", 0, arg)>>, TRUE, TRUE)

NotOTRBranchFinishedPasses(arg, ctx, tab) ==
    IF ctx.state = STATE_ENCRYPTED \/ getPolicy(ctx, "REQUIRE_ENCRYPTION")
    THEN Branch(<<Entry(tab, "not_encrypted", ctx.log, arg)>>, TRUE, TRUE)
    ELSE Branch(<<>>, FALSE, FALSE)

\* except NotOTRMessage (lines 497-518)
NotOTRBranch(arg, ctx, tab) ==
    IF ctx.state # STATE_PLAINTEXT \/ getPolicy(ctx, "REQUIRE_ENCRYPTION")
    THEN Branch(<<Entry(tab, "not_encrypted", ctx.log, arg)>>, TRUE, TRUE)
    ELSE Branch(<<>>, FALSE, FALSE)

UnreadableBranchDelivers(tab) ==
    Branch(<<Entry(tab, "unreadable", 0, <<>>), Entry(tab, "message", 0, <<>>)>>, TRUE, TRUE)

\* except NotEncryptedError (lines 519-532)
UnreadableBranch(tab) ==
    Branch(<<Entry(tab, "unreadable", 0, <<>>)>>, TRUE, TRUE)

InvalidBranchSilent(tab) == Branch(<<>>, TRUE, TRUE)

\* except crypt.InvalidParameterError (lines 533-541)
InvalidBranch(tab) ==
    Branch(<<Entry(tab, "undecryptable", 0, <<>>)>>, TRUE, TRUE)

ExceptionBranchSilent(tab) == Branch(<<>>, FALSE, FALSE)

\* the bare except (lines 542-547): the stanza is left as it came
ExceptionBranch(tab) ==
    Branch(<<Entry(tab, "plugin_error", 0, <<>>)>>, FALSE, FALSE)

TextBranchNeverLogs(txt, ctx, tab, opts) ==
    IF txt = <<>>
    THEN Branch(<<>>, TRUE, FALSE)
    ELSE Branch(<<Entry(tab, "message", 0, Format(txt, opts))>>, TRUE, TRUE)

\* a delivery that is logged whatever the session's flag is
TextBranchAlwaysLogs(txt, ctx, tab, opts) ==
    IF txt = <<>>
    THEN Branch(<<>>, TRUE, FALSE)
    ELSE Branch(<<Entry(tab, "message", 1, Format(txt, opts))>>, TRUE, TRUE)

\* receiveMessage returned (lines 549-587); txt empty: a protocol message
TextBranch(txt, ctx, tab, opts) ==
    IF txt = <<>>
    THEN Branch(<<>>, TRUE, FALSE)
    ELSE Branch(<<Entry(tab, "message", ctx.log, Format(txt, opts))>>, TRUE, TRUE)

MsgBranch(out, arg, ctx, tab, opts) ==
    CASE out = "UnencryptedMessage" -> UnencryptedBranch(arg, tab)
      [] out = "ErrorReceived" -> ErrorBranch(arg, tab)
      [] out = "NotOTRMessage" -> NotOTRBranch(arg, ctx, tab)
      [] out = "NotEncryptedError" -> UnreadableBranch(tab)
      [] out = "InvalidParameterError" -> InvalidBranch(tab)
      [] out = "Exception" -> ExceptionBranch(tab)
      [] out = "text" -> TextBranch(arg, ctx, tab, opts)

NoStanza == [body |-> Absent, html |-> Absent, replace |-> Absent]
Stanza(body, html, replace) == [body |-> body, html |-> html, replace |-> replace]

\* a removal of the body that leaves the html in the stanza
StripBodyOnly(msg) == [msg EXCEPT !.body = Absent]

\* del msg['body'], del msg['html']
Strip(msg) == [msg EXCEPT !.body = Absent, !.html = Absent]

Event(kind, tab, jid, pre, out, raised, arg, opts, inp) ==
    [kind |-> kind, tab |-> tab, jid |-> jid, pre |-> pre, out |-> out,
     raised |-> raised, arg |-> arg, opts |-> opts, inp |-> inp]

\* a hook whose own entry comes before the notices of the engine's callback
on_conversation_msgOwnFirst(from, tab, body, msg, cfg, resolveFails, py3k, opts) ==
    LET c1 == get_context(contexts, from, cfg)
        r == IF resolveFails
             THEN Result(World(contexts), "Exception", <<>>)
             ELSE receiveMessage(World(c1), from, body, py3k)
        ctx == IF resolveFails THEN NewContext(cfg) ELSE r.w.ctxs[from]
        b == MsgBranch(r.out, r.arg, ctx, tab, opts)
    IN  [ w |-> [r.w EXCEPT !.added = b.entries \o @,
                            !.ts = IF b.mark THEN hl(@, tab) ELSE @,
                            !.redraw = @ \/ b.mark],
          stanza |-> IF b.strip THEN Strip(msg) ELSE msg,
          ev |-> Event("msg", tab, from,
                       IF resolveFails THEN "unresolved" ELSE c1[from].state,
                       r.out, FALSE, r.arg, opts, msg) ]

\* the hook on the message msg from `from`, shown in tab; resolveFails: the
\* get_context call raises
on_conversation_msg(from, tab, body, msg, cfg, resolveFails, py3k, opts) ==
    LET c1 == get_context(contexts, from, cfg)
        r == IF resolveFails
             THEN Result(World(contexts), "Exception", <<>>)
             ELSE receiveMessage(World(c1), from, body, py3k)
        ctx == IF resolveFails THEN NewContext(cfg) ELSE r.w.ctxs[from]
        b == MsgBranch(r.out, r.arg, ctx, tab, opts)
    IN  [ w |-> [r.w EXCEPT !.added = @ \o b.entries,
                            !.ts = IF b.mark THEN hl(@, tab) ELSE @,
                            !.redraw = @ \/ b.mark],
          stanza |-> IF b.strip THEN Strip(msg) ELSE msg,
          ev |-> Event("msg", tab, from,
                       IF resolveFails THEN "unresolved" ELSE c1[from].state,
                       r.out, FALSE, r.arg, opts, msg) ]

Html == <<"<b>", "a">>
Replace == <<"id1">>

Commit(w) ==
    /\ contexts' = w.ctxs
    /\ tabstate' = w.ts
    /\ added' = w.added
    /\ sent' = w.sent
    /\ calls' = w.calls
    /\ privkey' = w.privkey
    /\ keyfile' = w.keyfile

\* the tabs an incoming message from `from` is shown in
TabsOf(from) == {t \in AllTabs : TabName(t) = from \/ (IsDynamic(t) /\ TabName(t) = BareJid(from))}

\* the message hook on one message, with a body of B[from]
OnConversationMsgOf(B) ==
    \E from \in DOMAIN B :
    \E body \in B[from] :
    \E tab \in TabsOf(from) :
    \E cfg \in IF from \in DOMAIN contexts THEN {DefaultConfig} ELSE SessionConfigs(from) :
    \E resolveFails \in IF body.t = "plain" THEN BOOLEAN ELSE {FALSE} :
    \E py3k \in IF body.t \in {"plain", "tagged"} /\ ~resolveFails THEN BOOLEAN ELSE {FALSE} :
    \E opts \in IF body.t = "data" /\ body.ok /\ body.txt \in OptTexts THEN FormatOpts ELSE {DefaultOpts} :
        LET h == on_conversation_msg(from, tab, body, Stanza(Raw(body), Html, Absent),
                                     cfg, resolveFails, py3k, opts)
        IN  /\ Commit(h.w)
            /\ stanza' = h.stanza
            /\ ev' = h.ev
            /\ UNCHANGED <<store, locked>>

\* bob/r1 sends every kind of body, bob/r2 those that move its session
BodiesFrom == [from \in Senders |-> IF from = BobR1 THEN Bodies ELSE LifeBodies]

OnConversationMsg == OnConversationMsgOf(BodiesFrom)

(***************************************************************************)
(* Plugin.find_encrypted_context_with_matching and on_conversation_say     *)
(***************************************************************************)
\* the orders 'for ctx in self.contexts' can take the keys of S in: the
\* iteration order of a dict is not specified
IterationOrders(S) ==
    {o \in [1..Cardinality(S) -> S] : \A j \in S : \E i \in 1..Cardinality(S) : o[i] = j}

RECURSIVE ScanAnyState(_, _, _, _)
\* a scan that returns the first session of the bare address, whatever its state
ScanAnyState(c, order, i, bare_jid) ==
    IF i > Len(order) THEN NoJid
    ELSE IF Bare(order[i]) = bare_jid THEN order[i]
    ELSE ScanAnyState(c, order, i + 1, bare_jid)

RECURSIVE Scan(_, _, _, _)
\* the loop of find_encrypted_context_with_matching from the i-th key of
\* order on: the first key that matches, NoJid for None
Scan(c, order, i, bare_jid) ==
    IF i > Len(order) THEN NoJid
    ELSE IF Bare(order[i]) = bare_jid /\ c[order[i]].state = STATE_ENCRYPTED THEN order[i]
    ELSE Scan(c, order, i + 1, bare_jid)

\* the sessions the scan can return, over the iteration orders of the
\* registry; the empty set: it returns None
find_encrypted_context_with_matching(c, bare_jid) ==
    {Scan(c, o, 1, bare_jid) : o \in IterationOrders(DOMAIN c)} \ {NoJid}

\* the name a command or the outgoing hook resolves for a tab
ResolvedName(tab) ==
    IF IsDynamic(tab) /\ locked # NoLock
    THEN <<Bare(TabName(tab)), locked>>
    ELSE TabName(tab)

\* a selection that falls back to the scan in a locked tab too
SayContextsAlwaysScans(c, tab) ==
    LET found == find_encrypted_context_with_matching(c, Bare(TabName(tab)))
    IN  IF found = {} THEN {NoJid} ELSE found

\* the sessions on_conversation_say can pick for tab; NoJid: none
SayContexts(c, tab) ==
    IF IsDynamic(tab) /\ locked = NoLock
    THEN LET found == find_encrypted_context_with_matching(c, Bare(TabName(tab)))
         IN  IF found = {} THEN {NoJid} ELSE found
    ELSE IF ResolvedName(tab) \in DOMAIN c THEN {ResolvedName(tab)} ELSE {NoJid}

SayEncryptsUnlessPlaintext(c, jid) == jid # NoJid /\ c[jid].state # STATE_PLAINTEXT

\* if ctx and ctx.state == STATE_ENCRYPTED (line 612)
SayEncrypts(c, jid) == jid # NoJid /\ c[jid].state = STATE_ENCRYPTED

SayStanzaKeepsHtml(msg) == [msg EXCEPT !.body = Absent, !.replace = Absent]

\* del msg['body'], msg['replace'], msg['html'] (lines 624-626)
SayStanza(msg) == [msg EXCEPT !.body = Absent, !.replace = Absent, !.html = Absent]

\* an outgoing hook that resolves the session through get_context
on_conversation_sayResolves(msg, tab, jid, engineFails) ==
    LET w == World(get_context(contexts, ResolvedName(tab), DefaultConfig))
        encrypted == SayEncrypts(contexts, jid)
        pre == IF jid = NoJid THEN "absent" ELSE contexts[jid].state
    IN  IF encrypted /\ ~engineFails
        THEN [ w |-> [sendMessage(w, jid, msg.body)
                        EXCEPT !.added = Append(@, Entry(tab, "own", contexts[jid].log, msg.body))],
               stanza |-> SayStanza(msg),
               ev |-> Event("say", tab, jid, pre, "sent", FALSE, msg.body, DefaultOpts, msg) ]
        ELSE [ w |-> w,
               stanza |-> msg,
               ev |-> Event("say", tab, jid, pre, IF encrypted THEN "Exception" ELSE "pass",
                            encrypted, msg.body, DefaultOpts, msg) ]

\* the hook on the outgoing message msg typed in tab, with the session jid
\* picked; engineFails: sendMessage raises
on_conversation_say(msg, tab, jid, engineFails) ==
    LET w == World(contexts)
        encrypted == SayEncrypts(contexts, jid)
        pre == IF jid = NoJid THEN "absent" ELSE contexts[jid].state
    IN  IF encrypted /\ ~engineFails
        THEN [ w |-> [sendMessage(w, jid, msg.body)
                        EXCEPT !.added = Append(@, Entry(tab, "own", contexts[jid].log, msg.body))],
               stanza |-> SayStanza(msg),
               ev |-> Event("say", tab, jid, pre, "sent", FALSE, msg.body, DefaultOpts, msg) ]
        ELSE [ w |-> w,
               stanza |-> msg,
               ev |-> Event("say", tab, jid, pre, IF encrypted THEN "Exception" ELSE "pass",
                            encrypted, msg.body, DefaultOpts, msg) ]

SayTexts == {<<"a">>}

OnConversationSay ==
    \E tab \in Tabs, body \in SayTexts, rich \in BOOLEAN :
    \E jid \in SayContexts(contexts, tab) :
    \E engineFails \in IF jid # NoJid /\ contexts[jid].state = STATE_ENCRYPTED
                       THEN BOOLEAN ELSE {FALSE} :
        LET msg == IF rich THEN Stanza(body, Html, Replace) ELSE Stanza(body, Absent, Absent)
            h == on_conversation_say(msg, tab, jid, engineFails)
        IN  /\ Commit(h.w)
            /\ stanza' = h.stanza
            /\ ev' = h.ev
            /\ UNCHANGED <<store, locked>>

\* display_encryption_status(jid), the 'otr' element of a tab's info line:
\* the registry afterwards and the session whose state is shown; found: the
\* session the scan returned, NoJid for None
display_encryption_status(jid, cfg, found) ==
    LET c1 == get_context(contexts, jid, cfg)
        shown == IF BareJid(jid) = jid /\ c1[jid].state # STATE_ENCRYPTED /\ found # NoJid
                 THEN found ELSE jid
    IN  [ ctxs |-> c1,
          ev |-> Event("status", NoTab, jid, c1[shown].state, c1[shown].state, FALSE, shown,
                       DefaultOpts, NoStanza) ]

\* the info line of a tab is drawn: with the tab's name or, in a locked
\* dynamic tab, the full address of the locked resource
DisplayEncryptionStatus ==
    \E tab \in Tabs :
    \E jid \in {TabName(tab), ResolvedName(tab)} :
    \E cfg \in IF jid \in DOMAIN contexts THEN {DefaultConfig} ELSE SessionConfigs(jid) :
    \E found \in LET f == find_encrypted_context_with_matching(
                              get_context(contexts, jid, cfg), Bare(jid))
                  IN  IF f = {} THEN {NoJid} ELSE f :
        LET h == display_encryption_status(jid, cfg, found)
        IN  /\ contexts' = h.ctxs
            /\ ev' = h.ev
            /\ added' = <<>>
            /\ sent' = <<>>
            /\ calls' = <<>>
            /\ stanza' = NoStanza
            /\ UNCHANGED <<store, locked, tabstate, privkey, keyfile>>

(***************************************************************************)
(* Plugin.command_otr, typed in the current tab                            *)
(***************************************************************************)
\* an end that leaves the session of the scan alone
command_endResolvedOnly(tab, cfg, found) ==
    LET name == ResolvedName(tab)
        c1 == get_context(contexts, name, cfg)
        w1 == disconnect(World(c1), name)
    IN  [ w |-> [w1 EXCEPT !.redraw = TRUE],
          ev |-> Event("end", tab, name, c1[name].state, "ok", FALSE,
                       IF IsDynamic(tab) /\ locked = NoLock THEN found ELSE <<>>,
                       DefaultOpts, NoStanza) ]

\* an end that takes the session it disconnected out of the registry
command_endForgets(tab, cfg, found) ==
    LET name == ResolvedName(tab)
        c1 == get_context(contexts, name, cfg)
        w1 == disconnect(World(c1), name)
        fallback == IsDynamic(tab) /\ locked = NoLock
        raised == fallback /\ found = NoJid
        w2 == IF fallback /\ found # NoJid THEN disconnect(w1, found) ELSE w1
    IN  [ w |-> [w2 EXCEPT !.redraw = @ \/ ~raised,
                           !.ctxs = [j \in DOMAIN w2.ctxs \ {name} |-> w2.ctxs[j]]],
          ev |-> Event("end", tab, name, c1[name].state,
                       IF raised THEN "AttributeError" ELSE "ok", raised,
                       IF fallback THEN found ELSE <<>>, DefaultOpts, NoStanza) ]

\* /otr end: disconnects the session of the tab and, in an unlocked dynamic
\* tab, the encrypted session `found` of the scan; found = NoJid: the scan
\* returned None, and None.disconnect() raises
command_end(tab, cfg, found) ==
    LET name == ResolvedName(tab)
        c1 == get_context(contexts, name, cfg)
        w1 == disconnect(World(c1), name)
        fallback == IsDynamic(tab) /\ locked = NoLock
        raised == fallback /\ found = NoJid
        w2 == IF fallback /\ found # NoJid THEN disconnect(w1, found) ELSE w1
    IN  [ w |-> [w2 EXCEPT !.redraw = @ \/ ~raised],
          ev |-> Event("end", tab, name, c1[name].state,
                       IF raised THEN "AttributeError" ELSE "ok", raised,
                       IF fallback THEN found ELSE <<>>, DefaultOpts, NoStanza) ]

\* what the scan of /otr end can return once the session of name is
\* disconnected
EndFound(tab, cfg) ==
    LET name == ResolvedName(tab)
        w1 == disconnect(World(get_context(contexts, name, cfg)), name)
        found == find_encrypted_context_with_matching(w1.ctxs, Bare(name))
    IN  IF IsDynamic(tab) /\ locked = NoLock /\ found # {} THEN found ELSE {NoJid}

CmdEnd ==
    \E tab \in Tabs :
    \E cfg \in IF ResolvedName(tab) \in DOMAIN contexts
               THEN {DefaultConfig} ELSE SessionConfigs(ResolvedName(tab)) :
    \E found \in EndFound(tab, cfg) :
        /\ tabstate[tab] = "current"
        /\ LET h == command_end(tab, cfg, found)
           IN  /\ Commit(h.w)
               /\ ev' = h.ev
               /\ stanza' = NoStanza
        /\ UNCHANGED <<store, locked>>

\* the order a loop over the registry takes the sessions of S in: sessions
\* do not read each other, so one order stands for all
RegistryOrder == <<BobBare, BobR1, BobR2>>
InS(S, j) == j \in S
Order(S) == SelectSeq(RegistryOrder, LAMBDA j : InS(S, j))

RECURSIVE DisconnectEach(_, _, _)
\* context.disconnect() for the sessions order[i], order[i+1], ...
DisconnectEach(w, order, i) ==
    IF i > Len(order) THEN w
    ELSE DisconnectEach(disconnect(w, order[i]), order, i + 1)

\* a drop_privkey that gives up when os.remove raises
drop_privkeyGivesUp(w, ioFails) ==
    IF ioFails THEN w ELSE [w EXCEPT !.keyfile = NoFile, !.privkey = NoPrivkey]

\* PoezioAccount.drop_privkey; ioFails: os.remove raises
drop_privkey(w, ioFails) ==
    [w EXCEPT !.keyfile = IF ioFails THEN @ ELSE NoFile, !.privkey = NoPrivkey]

\* /otr drop
command_drop(tab, order, ioFails) ==
    LET w1 == drop_privkey(DisconnectEach(World(contexts), order, 1), ioFails)
    IN  [ w |-> [w1 EXCEPT !.added = Append(@, Entry(tab, "key_dropped", 0, <<>>)),
                           !.redraw = TRUE],
          ev |-> Event("drop", tab, NoJid, "absent", "ok", FALSE, <<>>, DefaultOpts, NoStanza) ]

CmdDrop ==
    \E tab \in Tabs, ioFails \in BOOLEAN :
        /\ tabstate[tab] = "current"
        /\ LET order == Order({j \in DOMAIN contexts :
                                  contexts[j].state \notin {STATE_FINISHED, STATE_PLAINTEXT}})
               h == command_drop(tab, order, ioFails)
           IN  /\ Commit(h.w)
               /\ ev' = h.ev
               /\ stanza' = NoStanza
        /\ UNCHANGED <<store, locked>>

MaxTimers == 2
DefaultTimeout == 3
Timeouts == {-1, 0, DefaultTimeout}

Timer(tab, was_locked, otr, secs) ==
    [tab |-> tab, was_locked |-> was_locked, otr |-> otr, secs |-> secs]

\* a start that arms its timer whatever the timeout is
command_startArmsAlways(tab, cfg, secs) ==
    LET name == ResolvedName(tab)
        c1 == get_context(contexts, name, cfg)
        was_locked == IsDynamic(tab) /\ locked # NoLock
        w == World(c1)
    IN  [ w |-> [w EXCEPT !.sent = Append(@, Wire(name, "probe", <<>>)),
                          !.added = Append(@, Entry(tab, "request_sent", 0, <<>>)),
                          !.redraw = TRUE],
          timers |-> Append(timers, Timer(tab, was_locked, name, secs)),
          ev |-> Event("start", tab, name, c1[name].state, "ok", FALSE, <<secs>>,
                       DefaultOpts, NoStanza) ]

\* /otr start and /otr refresh, with the configured timeout secs
command_start(tab, cfg, secs) ==
    LET name == ResolvedName(tab)
        c1 == get_context(contexts, name, cfg)
        was_locked == IsDynamic(tab) /\ locked # NoLock
        w == World(c1)
    IN  [ w |-> [w EXCEPT !.sent = Append(@, Wire(name, "probe", <<>>)),
                          !.added = Append(@, Entry(tab, "request_sent", 0, <<>>)),
                          !.redraw = TRUE],
          timers |-> IF secs > 0
                     THEN Append(timers, Timer(tab, was_locked, name, secs))
                     ELSE timers,
          ev |-> Event("start", tab, name, c1[name].state, "ok", FALSE, <<secs>>,
                       DefaultOpts, NoStanza) ]

\* /otr start with a timeout of T configured
CmdStartOf(T) ==
    \E tab \in Tabs, secs \in T :
    \E cfg \in IF ResolvedName(tab) \in DOMAIN contexts
               THEN {DefaultConfig} ELSE SessionConfigs(ResolvedName(tab)) :
        /\ tabstate[tab] = "current"
        /\ secs > 0 => Len(timers) < MaxTimers
        /\ LET h == command_start(tab, cfg, secs)
           IN  /\ Commit(h.w)
               /\ timers' = h.timers
               /\ ev' = h.ev
               /\ stanza' = NoStanza
        /\ UNCHANGED <<trusts, trustfile, locked>>

CmdStart == CmdStartOf(Timeouts)

\* a callback that tests the session captured when the timer was armed
TimeoutNameCaptured(t) == t.otr

\* the session notify_otr_timeout tests when the timer t fires
TimeoutName(t) ==
    IF IsDynamic(t.tab) /\ ~t.was_locked /\ locked # NoLock
    THEN <<Bare(TabName(t.tab)), locked>>
    ELSE t.otr

\* a callback that does not look at the state
notify_otr_timeoutAlways(t, cfg) ==
    LET name == TimeoutName(t)
        c1 == get_context(contexts, name, cfg)
        w == World(c1)
    IN  [ w |-> [w EXCEPT !.added = Append(@, Entry(t.tab, "timeout", 0, <<>>)),
                          !.redraw = TRUE],
          ev |-> Event("timeout", t.tab, name, c1[name].state, "late", FALSE, <<t.otr>>,
                       DefaultOpts, NoStanza) ]

\* a callback that tests for PLAINTEXT where "not ENCRYPTED" is due
notify_otr_timeoutPlaintextOnly(t, cfg) ==
    LET name == TimeoutName(t)
        c1 == get_context(contexts, name, cfg)
        w == World(c1)
        late == c1[name].state = STATE_PLAINTEXT
    IN  [ w |-> IF late
                THEN [w EXCEPT !.added = Append(@, Entry(t.tab, "timeout", 0, <<>>)),
                               !.redraw = TRUE]
                ELSE w,
          ev |-> Event("timeout", t.tab, name, c1[name].state,
                       IF late THEN "late" ELSE "ok", FALSE, <<t.otr>>, DefaultOpts, NoStanza) ]

\* notify_otr_timeout, the callback of the timer t
notify_otr_timeout(t, cfg) ==
    LET name == TimeoutName(t)
        c1 == get_context(contexts, name, cfg)
        w == World(c1)
        late == c1[name].state # STATE_ENCRYPTED
    IN  [ w |-> IF late
                THEN [w EXCEPT !.added = Append(@, Entry(t.tab, "timeout", 0, <<>>)),
                               !.redraw = TRUE]
                ELSE w,
          ev |-> Event("timeout", t.tab, name, c1[name].state,
                       IF late THEN "late" ELSE "ok", FALSE, <<t.otr>>, DefaultOpts, NoStanza) ]

TimerFire ==
    \E i \in 1..Len(timers) :
    \E cfg \in IF TimeoutName(timers[i]) \in DOMAIN contexts
               THEN {DefaultConfig} ELSE SessionConfigs(TimeoutName(timers[i])) :
        /\ LET h == notify_otr_timeout(timers[i], cfg)
           IN  /\ Commit(h.w)
               /\ ev' = h.ev
               /\ stanza' = NoStanza
        /\ timers' = [k \in 1..(Len(timers) - 1) |-> IF k < i THEN timers[k] ELSE timers[k + 1]]
        /\ UNCHANGED <<trusts, trustfile, locked>>

(***************************************************************************)
(* /otr trust and /otr untrust                                             *)
(***************************************************************************)
VERIFIED == "verified"

\* an untrust that writes a word where the empty label is due
UntrustLabelWord == "untrusted"

\* ctx.setTrust(fpr, '') (line 751)
UntrustLabel == ""

\* a test that lets a session without a key through
HasKeyAlways(ctx) == TRUE

\* key = ctx.getCurrentKey(); if key (lines 728-732, 745-749)
HasKey(ctx) == ctx.key # NoKey

\* /otr trust (want = TRUE) and /otr untrust (want = FALSE) in tab; ioFails:
\* the trust file cannot be written
command_trust(tab, cfg, want, ioFails) ==
    LET name == ResolvedName(tab)
        c1 == get_context(contexts, name, cfg)
        ctx == c1[name]
        w == World(c1)
        st == Store(trusts, trustfile)
        kind == IF want THEN "trust" ELSE "untrust"
        trusted == getCurrentTrust(trusts, name, ctx) # ""
        label == IF want THEN VERIFIED ELSE UntrustLabel
        Ev(out) == Event(kind, tab, name, ctx.state, out, FALSE, <<>>, DefaultOpts, NoStanza)
    IN  IF ~HasKey(ctx)
        THEN [ w |-> w, st |-> st, ev |-> Ev("nokey") ]
        ELSE IF trusted = want
        THEN [ w |-> [w EXCEPT !.redraw = TRUE], st |-> st, ev |-> Ev("same") ]
        ELSE LET st1 == setTrust(st, trustName(name), ctx.key, label, AccountName, ioFails)
                 st2 == Store(st1.trusts,
                              save_trusts(st1.trusts, st1.file, AccountName, ioFails))
             IN  [ w |-> [w EXCEPT !.added = Append(@, Entry(tab,
                                        IF want THEN "trust_added" ELSE "trust_removed",
                                        0, <<trustName(name), ctx.key>>)),
                                   !.redraw = TRUE],
                   st |-> st2,
                   ev |-> Ev(IF ioFails THEN "save_failed" ELSE "saved") ]

CmdTrustOf(want) ==
    \E tab \in Tabs, ioFails \in BOOLEAN :
    \E cfg \in IF ResolvedName(tab) \in DOMAIN contexts
               THEN {DefaultConfig} ELSE SessionConfigs(ResolvedName(tab)) :
        /\ tabstate[tab] = "current"
        /\ LET h == command_trust(tab, cfg, want, ioFails)
           IN  /\ Commit(h.w)
               /\ trusts' = h.st.trusts
               /\ trustfile' = h.st.file
               /\ ev' = h.ev
               /\ stanza' = NoStanza
        /\ UNCHANGED <<timers, locked>>

CmdTrust == CmdTrustOf(TRUE)
CmdUntrust == CmdTrustOf(FALSE)

(***************************************************************************)
(* Plugin.cleanup, when the plugin is unloaded                             *)
(***************************************************************************)
InLiveSession(j) == contexts[j].state \notin {STATE_FINISHED, STATE_PLAINTEXT}

\* a cleanup that skips the sessions /otr drop skips
cleanupLiveOnly(order) ==
    [ w |-> DisconnectEach(World(contexts), SelectSeq(order, InLiveSession), 1),
      ev |-> Event("cleanup", NoTab, NoJid, "absent", "ok", FALSE, <<>>, DefaultOpts, NoStanza) ]

cleanup(order) ==
    [ w |-> DisconnectEach(World(contexts), order, 1),
      ev |-> Event("cleanup", NoTab, NoJid, "absent", "ok", FALSE, <<>>, DefaultOpts, NoStanza) ]

Cleanup ==
    /\ LET h == cleanup(Order(DOMAIN contexts))
       IN  /\ Commit(h.w)
           /\ ev' = h.ev
           /\ stanza' = NoStanza
    /\ UNCHANGED <<store, locked>>

(***************************************************************************)
(* The client around the plugin: the user moves the focus to another tab,  *)
(* and the dynamic tab locks to a resource or unlocks.                     *)
(***************************************************************************)
Quiet(kind, tab) ==
    /\ ev' = Event(kind, tab, NoJid, "absent", "none", FALSE, <<>>, DefaultOpts, NoStanza)
    /\ added' = <<>>
    /\ sent' = <<>>
    /\ calls' = <<>>
    /\ stanza' = NoStanza
    /\ UNCHANGED <<privkey, keyfile>>

\* the user moves to the tab t
Focus ==
    \E t \in Tabs :
        /\ tabstate[t] # "current"
        /\ tabstate' = [tabstate EXCEPT ![t] = "current"]
        /\ Quiet("focus", t)
        /\ UNCHANGED <<contexts, store, locked>>

\* the user moves from the tab t to a tab of another contact
Unfocus ==
    \E t \in Tabs :
        /\ tabstate[t] = "current"
        /\ tabstate' = [tabstate EXCEPT ![t] = "normal"]
        /\ Quiet("unfocus", t)
        /\ UNCHANGED <<contexts, store, locked>>

Lock ==
    \E r \in Locks :
        /\ r # locked
        /\ locked' = r
        /\ Quiet("lock", "dyn")
        /\ UNCHANGED <<contexts, store, tabstate>>

TrustTables == {NoTrusts, [p \in {<<"bob", PeerKey>>} |-> "verified"]}

\* the state Plugin.init leaves, with one of the trust files and one of the
\* key files on the disk
InitWith(trustfiles, keyfiles) ==
    \E f \in trustfiles :
        /\ contexts = [j \in {} |-> NewContext(DefaultConfig)]
        /\ trusts = load_trusts(f, AccountName, FALSE).trusts
        /\ trustfile = load_trusts(f, AccountName, FALSE).file
        /\ locked = NoLock
        /\ tabstate = [t \in AllTabs |-> "current"]
        /\ ev = Event("init", NoTab, NoJid, "absent", "none", FALSE, f, DefaultOpts, NoStanza)
        /\ added = <<>>
        /\ sent = <<>>
        /\ stanza = NoStanza
        /\ calls = <<>>
        /\ timers = <<>>
        /\ privkey = NoPrivkey
        /\ keyfile \in keyfiles

Init == InitWith({NoTrustFile}, {NoFile, NewKey})

\* self.api.information(...) of Plugin.init (lines 399-404): the warning
\* shown when os.makedirs(OTR_DIR) raises anything but 'file exists'
FolderWarning == Entry(NoTab, "information", 0, <<"folder">>)

\* Plugin.init when the plugin is loaded again: a new account, which loads
\* the trust file, and an empty registry; dirFails: the folder of the keys
\* is not there and cannot be made, so that it holds no file
PluginInitOf(D) ==
    \E dirFails \in D :
    \E saveFails \in IF dirFails THEN {TRUE} ELSE BOOLEAN :
        LET st == load_trusts(trustfile, AccountName, saveFails)
        IN  /\ dirFails => (trustfile = NoTrustFile /\ keyfile = NoFile)
            /\ contexts' = [j \in {} |-> NewContext(DefaultConfig)]
            /\ trusts' = st.trusts
            /\ trustfile' = st.file
            /\ privkey' = NoPrivkey
            /\ ev' = Event("init", NoTab, NoJid,
                           IF ev.kind = "save" THEN ev.out ELSE "absent",
                           IF dirFails THEN "no_folder" ELSE "none", FALSE, trustfile,
                           DefaultOpts, NoStanza)
            /\ added' = IF dirFails THEN <<FolderWarning>> ELSE <<>>
            /\ sent' = <<>>
            /\ calls' = <<>>
            /\ stanza' = NoStanza
            /\ UNCHANGED <<tabstate, locked, timers, keyfile>>

\* the folder is there: os.makedirs raises 'file exists' (errno 17)
PluginInit == PluginInitOf({FALSE})

Next ==
    \/ OnConversationMsg
    \/ OnConversationSay
    \/ CmdEnd
    \/ Focus
    \/ Unfocus
    \/ Lock

Spec == Init /\ [][Next]_vars

(***************************************************************************)
(* The life of the sessions: the messages that move a session, every       *)
(* command that touches one, the timeouts and the unloading of the plugin. *)
(***************************************************************************)
LifeBodiesFrom == [from \in Senders |-> LifeBodies]

\* the timeout is configured off (a negative or null value)
NoTimeout == {0}

NextLife ==
    \/ OnConversationMsgOf(LifeBodiesFrom)
    \/ CmdEnd
    \/ CmdStartOf(NoTimeout)
    \/ CmdDrop
    \/ Cleanup
    \/ Focus
    \/ Unfocus
    \/ Lock

SpecLife == Init /\ [][NextLife]_vars

(***************************************************************************)
(* The trust commands: sessions negotiate a key, the user trusts and       *)
(* untrusts it, the plugin is loaded again.                                *)
(***************************************************************************)
\* a line of a trust file, from the texts of its fields
RawLine(fields) == Join(fields) \o <<NL>>

BobLine == RawLine(<<"bob", AccountName, Protocol, "F1", VERIFIED>>)
EveLine == RawLine(<<"eve", AccountName, Protocol, "F2", VERIFIED>>)
CarolLine == RawLine(<<"bob", "carol", Protocol, "F1", VERIFIED>>)

\* the trust files the plugin starts with
StartFiles == {NoTrustFile, <<EveLine>>, <<CarolLine, BobLine>>}

KeyBodiesFrom ==
    [from \in Senders |-> { Body("plain", <<"a">>, FALSE, TRUE, FALSE),
                            Body("ake", <<>>, TRUE, TRUE, FALSE) }]

InitTrust == InitWith(StartFiles, {NoFile})

NextTrust ==
    \/ OnConversationMsgOf(KeyBodiesFrom)
    \/ CmdTrust
    \/ CmdUntrust
    \/ Lock
    \/ PluginInit

SpecTrust == InitTrust /\ [][NextTrust]_vars

(***************************************************************************)
(* The trust store alone: the plugin starts with any trust file of at most *)
(* MaxLines lines, saves the table it loaded and loads the file again.     *)
(***************************************************************************)
MaxLines == 3

EmptyLabelLine == RawLine(<<"bob", AccountName, Protocol, "F1", "">>)
IrcLine == RawLine(<<"eve", AccountName, "irc", "F1", VERIFIED>>)
FullJidLine == RawLine(<<"bob/r1", AccountName, Protocol, "F2", VERIFIED>>)
NoJidLine == RawLine(<<"", AccountName, Protocol, "F1", VERIFIED>>)
JunkLine == <<"junk", NL>>

TrustFileLines ==
    {BobLine, EmptyLabelLine, EveLine, CarolLine, IrcLine, FullJidLine, NoJidLine, JunkLine}

TrustFiles ==
    {NoTrustFile} \cup UNION { [1..n -> TrustFileLines] : n \in 0..MaxLines }

\* account.saveTrusts(), with the table as it is
SaveTrusts ==
    \E ioFails \in BOOLEAN :
        /\ trustfile' = save_trusts(trusts, trustfile, AccountName, ioFails)
        /\ ev' = Event("save", NoTab, NoJid, "absent",
                       IF ioFails THEN "save_failed" ELSE "saved", FALSE, <<>>,
                       DefaultOpts, NoStanza)
        /\ added' = <<>>
        /\ sent' = <<>>
        /\ calls' = <<>>
        /\ stanza' = NoStanza
        /\ UNCHANGED <<contexts, trusts, timers, locked, tabstate, privkey, keyfile>>

InitStore == InitWith(TrustFiles, {NoFile})

NextStore ==
    \/ PluginInit
    \/ SaveTrusts

SpecStore == InitStore /\ [][NextStore]_vars

(***************************************************************************)
(* The key store: the account's load_privkey, save_privkey and             *)
(* drop_privkey called on their own, next to the hook (whose key exchange  *)
(* makes the engine get, generate and save the key) and the drop command.  *)
(***************************************************************************)
KeyFiles == {NoFile, OldKey, BadKeyFile}

\* an effect-free event of the key store
KeyEvent(kind, out) ==
    /\ ev' = Event(kind, NoTab, NoJid, keyfile, out, FALSE, <<>>, DefaultOpts, NoStanza)
    /\ added' = <<>>
    /\ sent' = <<>>
    /\ calls' = <<>>
    /\ stanza' = NoStanza

\* account.load_privkey(): the key it returns is the event's outcome
LoadPrivkey ==
    /\ KeyEvent("load_privkey", load_privkey(keyfile))
    /\ UNCHANGED <<contexts, store, locked, tabstate, privkey, keyfile>>

\* account.save_privkey(): the file is opened 'xb' first; once it is open
\* the key to write is got from getPrivkey, which generates one when the
\* account holds none
SavePrivkey ==
    LET key == IF keyfile # NoFile \/ privkey # NoPrivkey THEN privkey ELSE NewKey
    IN  /\ keyfile' = save_privkey(keyfile, key)
        /\ privkey' = key
        /\ KeyEvent("save_privkey", IF keyfile = NoFile THEN "saved" ELSE "save_failed")
        /\ UNCHANGED <<contexts, store, locked, tabstate>>

\* account.drop_privkey()
DropPrivkey ==
    \E ioFails \in BOOLEAN :
        LET w == drop_privkey(World(contexts), ioFails)
        IN  /\ keyfile' = w.keyfile
            /\ privkey' = w.privkey
            /\ KeyEvent("drop_privkey", IF ioFails \/ keyfile = NoFile THEN "remove_failed" ELSE "removed")
            /\ UNCHANGED <<contexts, store, locked, tabstate>>

InitKeys == InitWith({NoTrustFile}, KeyFiles)

NextKeys ==
    \/ OnConversationMsgOf(KeyBodiesFrom)
    \/ LoadPrivkey
    \/ SavePrivkey
    \/ DropPrivkey
    \/ CmdDrop
    \/ PluginInit

SpecKeys == InitKeys /\ [][NextKeys]_vars

(***************************************************************************)
(* The timeouts: sessions are negotiated and ended while /otr start arms   *)
(* timers, with the timeout configured or off, and the timers fire.        *)
(***************************************************************************)
TimerBodiesFrom ==
    [from \in Senders |-> { Body("ake", <<>>, TRUE, TRUE, FALSE),
                            Body("data", <<>>, TRUE, TRUE, TRUE) }]

NextTimer ==
    \/ OnConversationMsgOf(TimerBodiesFrom)
    \/ CmdStart
    \/ TimerFire
    \/ CmdEnd
    \/ Lock

InitTimer == InitWith({NoTrustFile}, {NoFile})

SpecTimer == InitTimer /\ [][NextTimer]_vars

(***************************************************************************)
(* Where sessions come from: every handler that resolves an address, next  *)
(* to the outgoing hook, which only looks one up.                          *)
(***************************************************************************)
InitLazy == InitWith({NoTrustFile}, {NoFile})

NextLazy ==
    \/ OnConversationMsgOf(KeyBodiesFrom)
    \/ OnConversationSay
    \/ CmdStartOf(NoTimeout)
    \/ CmdEnd
    \/ CmdTrust
    \/ CmdUntrust
    \/ DisplayEncryptionStatus
    \/ Lock
    \/ PluginInit

SpecLazy == InitLazy /\ [][NextLazy]_vars

(***************************************************************************)
(* The scope of trust: two resources of one contact, one of them with      *)
(* either of two keys, and another contact negotiate keys while the user   *)
(* trusts and untrusts in the dynamic tab.                                 *)
(***************************************************************************)
OtherKey == "F2"

ScopeBodiesFrom ==
    [from \in Senders \cup {EveR1} |->
        IF from = BobR2
        THEN { Body("ake", <<>>, TRUE, TRUE, FALSE), Body("ake", <<OtherKey>>, TRUE, TRUE, FALSE) }
        ELSE { Body("ake", <<>>, TRUE, TRUE, FALSE) }]

InitScope == InitWith({NoTrustFile}, {NoFile})

NextScope ==
    \/ OnConversationMsgOf(ScopeBodiesFrom)
    \/ CmdTrust
    \/ CmdUntrust
    \/ Lock

SpecScope == InitScope /\ [][NextScope]_vars

(***************************************************************************)
(* The failures of the stores: the key file and the trust file are read,   *)
(* written and removed, with a folder that may be missing, while messages  *)
(* come in and keys are trusted.                                           *)
(***************************************************************************)
IOTrustFiles == {NoTrustFile, <<BobLine>>}

InitIO == InitWith(IOTrustFiles, KeyFiles)

NextIO ==
    \/ OnConversationMsgOf(KeyBodiesFrom)
    \/ PluginInitOf(BOOLEAN)
    \/ SaveTrusts
    \/ LoadPrivkey
    \/ SavePrivkey
    \/ DropPrivkey
    \/ CmdTrust
    \/ Lock

SpecIO == InitIO /\ [][NextIO]_vars

(***************************************************************************)
(* The formatting of decrypted text: an encrypted session receives texts   *)
(* with markup, under every setting of the three formatting options.       *)
(***************************************************************************)
FormatBodiesFrom ==
    [from \in Senders |->
        {Body("ake", <<>>, TRUE, TRUE, FALSE)}
        \cup {Body("data", t, FALSE, TRUE, FALSE) : t \in OptTexts \cup {<<"a">>}}]

InitFormat == InitWith({NoTrustFile}, {NoFile})

NextFormat ==
    \/ OnConversationMsgOf(FormatBodiesFrom)
    \/ Lock

SpecFormat == InitFormat /\ [][NextFormat]_vars

(***************************************************************************)
(* The registry over the life of the plugin, from its loading to its       *)
(* unloading: sessions are negotiated, written to, ended, dropped and torn *)
(* down while timers are armed and fire.                                   *)
(***************************************************************************)
\* one resource of the contact writes; the sessions of the other addresses
\* come from the commands
RegistryBodiesFrom == [from \in {BobR1} |-> TimerBodiesFrom[from]]

InitRegistry == InitWith({NoTrustFile}, {NoFile})

NextRegistry ==
    \/ OnConversationMsgOf(RegistryBodiesFrom)
    \/ OnConversationSay
    \/ CmdStartOf({DefaultTimeout})
    \/ TimerFire
    \/ CmdEnd
    \/ CmdDrop
    \/ Cleanup
    \/ Lock

SpecRegistry == InitRegistry /\ [][NextRegistry]_vars

(***************************************************************************)
(* Properties                                                              *)
(***************************************************************************)
IsStateNotice(e) == e.kind \in {"started", "refreshed", "ended"}

\* the entries the handler added itself, and those setState added
OwnEntries == SelectSeq(added, LAMBDA e : ~IsStateNotice(e))
StateNotices == SelectSeq(added, IsStateNotice)

\* C1: when the outgoing hook returns for a message whose resolved session is
\* ENCRYPTED, the stanza that goes on has no body, no replace and no html,
\* and what went to the transport is one ciphertext of the text, addressed to
\* the peer of that session.
C1_EncryptedSayLeavesNoPlaintext ==
    (ev.kind = "say" /\ ev.pre = STATE_ENCRYPTED /\ ~ev.raised) =>
        /\ stanza.body = Absent
        /\ stanza.replace = Absent
        /\ stanza.html = Absent
        /\ sent = <<Wire(ev.jid, "data", ev.inp.body)>>

C1_Witness ==
    /\ ev.kind = "say" /\ ev.pre = STATE_ENCRYPTED /\ ~ev.raised
    /\ ev.inp.html # Absent /\ ev.inp.replace # Absent
    /\ locked = NoLock

\* C2: when the session the outgoing hook resolves is absent, PLAINTEXT or
\* FINISHED, the hook leaves the stanza as it came, and changes no session,
\* no registry entry and no transcript, and sends nothing.
C2_UnencryptedSayIsUntouched ==
    [][ (ev'.kind = "say" /\ ev'.pre \in {"absent", STATE_PLAINTEXT, STATE_FINISHED}) =>
            /\ stanza' = ev'.inp
            /\ ~ev'.raised
            /\ contexts' = contexts
            /\ added' = <<>>
            /\ sent' = <<>>
            /\ calls' = <<>>
            /\ trusts' = trusts ]_vars

C2_Witness ==
    /\ ev.kind = "say" /\ ev.pre = STATE_FINISHED
    /\ ev.inp.html # Absent /\ stanza = ev.inp

(***************************************************************************)
(* C3 and C4: the setState calls of a handler                              *)
(***************************************************************************)
Change(old, newstate) == <<old, newstate>>

SpecChanges ==
    { Change(STATE_PLAINTEXT, STATE_ENCRYPTED), Change(STATE_ENCRYPTED, STATE_ENCRYPTED),
      Change(STATE_ENCRYPTED, STATE_FINISHED), Change(STATE_ENCRYPTED, STATE_PLAINTEXT) }

\* leaving FINISHED: /otr end or the unloading of the plugin on a finished
\* session, and a key exchange that completes on one
FinishedChanges ==
    { Change(STATE_FINISHED, STATE_PLAINTEXT), Change(STATE_FINISHED, STATE_ENCRYPTED) }

CallsOf(cs, j) == SelectSeq(cs, LAMBDA c : c.peer = j)

\* the calls cs take a session from s0 to final, each from where the last left it
Chained(s0, cs, final) ==
    /\ \A i \in 1..Len(cs) : cs[i].old = (IF i = 1 THEN s0 ELSE cs[i - 1].new)
    /\ final = (IF cs = <<>> THEN s0 ELSE cs[Len(cs)].new)

ClaimedNotice(old, newstate) ==
    CASE old # STATE_ENCRYPTED /\ newstate = STATE_ENCRYPTED -> "started"
      [] old = STATE_ENCRYPTED /\ newstate = STATE_ENCRYPTED -> "refreshed"
      [] old = STATE_ENCRYPTED /\ newstate \in {STATE_FINISHED, STATE_PLAINTEXT} -> "ended"
      [] OTHER -> "none"

Noticed(cs) == SelectSeq(cs, LAMBDA c : ClaimedNotice(c.old, c.new) # "none")

\* C4, as claimed: every setState call emits the notice its pair (old,
\* newstate) determines, and no other notice is emitted.
C4_EveryCallNotices ==
    LET due == Noticed(calls)
    IN  /\ Len(StateNotices) = Len(due)
        /\ \A i \in 1..Len(due) : StateNotices[i].kind = ClaimedNotice(due[i].old, due[i].new)

\* C4, amended: every setState call for which a conversation is open (a tab
\* named by the peer's address, or the dynamic tab of the peer locked to its
\* resource) emits in that tab the notice its pair (old, newstate)
\* determines; a call with no such tab, or with another pair, emits none.
C4_CallsWithTabNotice ==
    LET due == Noticed(SelectSeq(calls, LAMBDA c : c.tab # NoTab))
    IN  /\ Len(StateNotices) = Len(due)
        /\ \A i \in 1..Len(due) :
              /\ StateNotices[i].kind = ClaimedNotice(due[i].old, due[i].new)
              /\ StateNotices[i].tab = due[i].tab

C4_Witness ==
    /\ \E i \in 1..Len(calls) :
          calls[i].old = STATE_FINISHED /\ calls[i].new = STATE_ENCRYPTED /\ calls[i].tab # NoTab
    /\ \E i \in 1..Len(added) : added[i].kind = "started"

(***************************************************************************)
(* C5 to C10: the incoming hook, by the outcome of receiveMessage          *)
(***************************************************************************)
Marked(tab) == tabstate[tab] \in {"current", "private"}

\* C5: when receiveMessage returns decrypted text, the hook adds exactly one
\* entry of its own when the text is not empty - the formatted text, tagged
\* with the logging flag of the session - and marks the tab; when the text
\* is empty it adds none.
C5_DecryptedTextIsDeliveredOnce ==
    (ev.kind = "msg" /\ ev.out = "text") =>
        IF ev.arg # <<>>
        THEN /\ OwnEntries = <<Entry(ev.tab, "message", contexts[ev.jid].log,
                                     Format(ev.arg, ev.opts))>>
             /\ Marked(ev.tab)
        ELSE OwnEntries = <<>>

C5_Witness ==
    /\ ev.kind = "msg" /\ ev.out = "text" /\ ev.arg = Markup
    /\ ~ev.opts.decode_xhtml /\ ev.opts.decode_entities /\ ~ev.opts.decode_newlines
    /\ contexts[ev.jid].log = 1
    /\ Len(added) = 1 /\ added[1].arg = <<"<br>", "<br/>">>
    /\ tabstate[ev.tab] = "private"

\* C6: for a message classified as not a protocol message, the hook passes
\* it through untouched and adds nothing when the session is PLAINTEXT and
\* its REQUIRE_ENCRYPTION policy is false; in every other case it adds
\* exactly one 'was not encrypted' warning holding the original text and
\* removes the body from the stanza.
C6_NotOTRPassesOrWarns ==
    (ev.kind = "msg" /\ ev.out = "NotOTRMessage") =>
        IF /\ contexts[ev.jid].state = STATE_PLAINTEXT
           /\ ~getPolicy(contexts[ev.jid], "REQUIRE_ENCRYPTION")
        THEN stanza = ev.inp /\ added = <<>>
        ELSE /\ Len(added) = 1
             /\ added[1].kind = "not_encrypted"
             /\ added[1].tab = ev.tab
             /\ added[1].arg = ev.arg
             /\ stanza.body = Absent

C6_Witness ==
    /\ ev.kind = "msg" /\ ev.out = "NotOTRMessage"
    /\ contexts[ev.jid].state = STATE_FINISHED
    /\ Len(added) = 1 /\ added[1].arg = <<"a">>

C8_WitnessEngine ==
    /\ ev.kind = "msg" /\ ev.out = "Exception" /\ ev.pre = STATE_ENCRYPTED
    /\ Len(added) = 1

\* C9: an unencrypted message in a session, a protocol error from the peer
\* and a decryption failure each add exactly one notice of their own kind -
\* the warning with the original text, the error with the peer's text, the
\* 'could not be decrypted' notice - never a message, and the hook returns.
C9_ClassifiedOutcomesNotice ==
    (ev.kind = "msg") =>
        /\ ev.out = "UnencryptedMessage" =>
              added = <<Entry(ev.tab, "not_encrypted", 0, ev.arg)>> /\ ~ev.raised
        /\ ev.out = "ErrorReceived" =>
              added = <<Entry(ev.tab, "error_received", 0, ev.arg)>> /\ ~ev.raised
        /\ ev.out = "InvalidParameterError" =>
              added = <<Entry(ev.tab, "undecryptable", 0, <<>>)>> /\ ~ev.raised

C9_Witness ==
    /\ ev.kind = "msg" /\ ev.out = "InvalidParameterError"
    /\ added = <<Entry(ev.tab, "undecryptable", 0, <<>>)>>

C9_WitnessUnencrypted ==
    /\ ev.kind = "msg" /\ ev.out = "UnencryptedMessage" /\ ev.arg = <<"a">>
    /\ Len(added) = 1

C9_WitnessError ==
    /\ ev.kind = "msg" /\ ev.out = "ErrorReceived" /\ ev.arg = <<"e">>
    /\ Len(added) = 1

Stripped == stanza.body = Absent /\ stanza.html = Absent

\* the not-a-protocol message of a PLAINTEXT session that does not require
\* encryption
PassedThrough ==
    /\ ev.out = "NotOTRMessage"
    /\ contexts[ev.jid].state = STATE_PLAINTEXT
    /\ ~getPolicy(contexts[ev.jid], "REQUIRE_ENCRYPTION")

\* C10, as claimed: in every branch but the two of decrypted text the hook
\* removes the body and the html of the stanza.
C10_EveryOtherBranchStrips ==
    (ev.kind = "msg" /\ ev.out # "text") => Stripped

\* C10, amended: the hook removes the body and the html of the stanza in
\* every branch but two, which leave the stanza as it came: the silent
\* pass-through of a not-a-protocol message, and the unexpected failure.
C10_BranchesThatStrip ==
    (ev.kind = "msg") =>
        IF PassedThrough \/ ev.out = "Exception"
        THEN stanza = ev.inp
        ELSE Stripped

C10_Witness ==
    /\ ev.kind = "msg" /\ ev.out = "NotEncryptedError"
    /\ ev.inp.html # Absent /\ ev.inp.body # Absent
    /\ Stripped

C10_WitnessKept ==
    /\ ev.kind = "msg" /\ ev.out = "Exception" /\ ev.pre = STATE_ENCRYPTED
    /\ stanza = ev.inp /\ stanza.body # Absent

(***************************************************************************)
(* C11 to C16: the trust table and its file                                *)
(***************************************************************************)
LabelOf(tr, k) == IF k \in DOMAIN tr THEN tr[k] ELSE ""

\* the entries of tr other than k are those of tr2
SameButAt(tr, tr2, k) ==
    /\ DOMAIN tr \ {k} = DOMAIN tr2 \ {k}
    /\ \A o \in DOMAIN tr \ {k} : tr2[o] = tr[o]

\* C11: for a session with a fingerprint F, trust leaves a non-empty label
\* for (bare address of the peer, F) and untrust the empty label; a trust of
\* a trusted key and an untrust of an untrusted one leave the table and the
\* file as they were; no other entry of the table changes.
C11_TrustSetsUntrustClears ==
    [][ (ev'.kind \in {"trust", "untrust"} /\ contexts'[ev'.jid].key # NoKey) =>
            LET k == <<Bare(ev'.jid), contexts'[ev'.jid].key>>
                trusted == LabelOf(trusts, k) # ""
            IN  /\ ev'.kind = "trust" => LabelOf(trusts', k) # ""
                /\ ev'.kind = "untrust" => LabelOf(trusts', k) = ""
                /\ trusted = (ev'.kind = "trust") =>
                      trusts' = trusts /\ trustfile' = trustfile /\ added' = <<>>
                /\ SameButAt(trusts, trusts', k) ]_vars

C11_Witness ==
    /\ ev.kind = "untrust" /\ ev.out = "saved"
    /\ <<"bob", PeerKey>> \in DOMAIN trusts /\ trusts[<<"bob", PeerKey>>] = ""
    /\ <<"eve", "F2">> \in DOMAIN trusts

C11_WitnessRepeated ==
    /\ ev.kind = "trust" /\ ev.out = "same"
    /\ trusts[<<"bob", PeerKey>>] = VERIFIED

\* C12: trust and untrust for a session with no negotiated fingerprint change
\* neither the trust table nor the trust file, add nothing to the transcript
\* and raise nothing.
C12_NoKeyNoEffect ==
    [][ (ev'.kind \in {"trust", "untrust"} /\ contexts'[ev'.jid].key = NoKey) =>
            /\ trusts' = trusts
            /\ trustfile' = trustfile
            /\ added' = <<>>
            /\ ~ev'.raised ]_vars

C12_Witness ==
    /\ ev.kind = "trust" /\ ev.out = "nokey"
    /\ contexts[ev.jid].key = NoKey
    /\ trusts # NoTrusts

\* the file is one well-formed line of this account for each entry of tr,
\* and no other line
FileHoldsTable(file, tr) ==
    /\ file # NoTrustFile
    /\ Len(file) = Cardinality(DOMAIN tr)
    /\ \A i \in 1..Len(file) :
          LET line == file[i]
              f == Split(ChopLast(line))
          IN  /\ line[Len(line)] = NL
              /\ Len(f) = 5
              /\ Text(f[2]) = AccountName /\ Text(f[3]) = Protocol
              /\ <<Text(f[1]), Text(f[4])>> \in DOMAIN tr
              /\ tr[<<Text(f[1]), Text(f[4])>>] = Text(f[5])
    /\ \A i, j \in 1..Len(file) :
          LET f == Split(ChopLast(file[i]))
              g == Split(ChopLast(file[j]))
          IN  (f[1] = g[1] /\ f[4] = g[4]) => i = j

Fields(line) == Split(ChopLast(line))
WellFormed(line) == Len(Fields(line)) = 5
Foreign(line) ==
    WellFormed(line) /\ (Text(Fields(line)[2]) # AccountName \/ Text(Fields(line)[3]) # Protocol)
Own(line) == WellFormed(line) /\ ~Foreign(line) /\ BareOfText(Text(Fields(line)[1])) # ""
KeyOfLine(line) == <<BareOfText(Text(Fields(line)[1])), Text(Fields(line)[4])>>
LabelOfLine(line) == Text(Fields(line)[5])

\* the index of the first line that is not well-formed, Len(file) + 1 if none
FirstMalformed(file) ==
    IF \A i \in 1..Len(file) : WellFormed(file[i]) THEN Len(file) + 1
    ELSE CHOOSE i \in 1..Len(file) :
            ~WellFormed(file[i]) /\ \A k \in 1..(i - 1) : WellFormed(file[k])

\* the file a load read
Loaded == ev.kind = "init" /\ ev.arg # NoTrustFile

\* C14: save_trusts followed by load_trusts of a new account yields the
\* table that was saved, entries with the empty label included (every entry
\* is written under this account's name and 'xmpp', so none is filtered).
C14_SaveLoadRoundTrip ==
    [][ (ev.kind = "save" /\ ev.out = "saved" /\ ev'.kind = "init") => trusts' = trusts ]_vars

C14_Witness ==
    /\ ev.kind = "init" /\ ev.pre = "saved"
    /\ DOMAIN trusts = {<<"bob", "F1">>, <<"eve", "F2">>}
    /\ trusts[<<"bob", "F1">>] = ""
    /\ ev.arg = <<EmptyLabelLine, EveLine>>

\* C15: every entry load_trusts makes comes from a well-formed line whose
\* account is the loading account and whose protocol tag is 'xmpp', with the
\* line's fingerprint and label under the bare address of the line's peer;
\* the lines of other accounts and protocols change nothing: the table is
\* the one the file without them loads.
C15_OnlyOwnLinesLoad ==
    Loaded =>
        /\ \A k \in DOMAIN trusts :
              \E i \in 1..Len(ev.arg) :
                  Own(ev.arg[i]) /\ KeyOfLine(ev.arg[i]) = k /\ LabelOfLine(ev.arg[i]) = trusts[k]
        /\ trusts = load_trusts(SelectSeq(ev.arg, LAMBDA l : ~Foreign(l)),
                                AccountName, FALSE).trusts

C15_Witness ==
    /\ Loaded
    /\ ev.arg = <<CarolLine, BobLine, IrcLine>>
    /\ DOMAIN trusts = {<<"bob", "F1">>}
    /\ trusts[<<"bob", "F1">>] = VERIFIED

\* C16, as claimed: a malformed line is skipped, and every well-formed line
\* of this account and protocol, before or after it, is loaded.
C16_MalformedLineIsSkipped ==
    Loaded => \A i \in 1..Len(ev.arg) : Own(ev.arg[i]) => KeyOfLine(ev.arg[i]) \in DOMAIN trusts

\* C16, amended: a malformed line ends the load without an error to the
\* caller: the lines of this account and protocol before it are loaded, and
\* no line after it is.
C16_MalformedLineEndsLoad ==
    Loaded =>
        LET n == FirstMalformed(ev.arg)
        IN  /\ ~ev.raised
            /\ \A i \in 1..(n - 1) : Own(ev.arg[i]) => KeyOfLine(ev.arg[i]) \in DOMAIN trusts
            /\ \A k \in DOMAIN trusts :
                  \E i \in 1..(n - 1) :
                      Own(ev.arg[i]) /\ KeyOfLine(ev.arg[i]) = k
                      /\ LabelOfLine(ev.arg[i]) = trusts[k]

C16_Witness ==
    /\ Loaded
    /\ ev.arg = <<BobLine, JunkLine, EveLine>>
    /\ DOMAIN trusts = {<<"bob", "F1">>}

\* C17: with the key file absent load_privkey returns no key and raises
\* nothing; save_privkey then creates the file, with the account's key; a
\* save_privkey with the file present fails and leaves the file as it is;
\* and no step of the plugin replaces the content of an existing key file
\* (it stays, or a drop removes it).
C17_KeyFileNeverOverwritten ==
    [][ /\ (ev'.kind = "load_privkey" /\ keyfile = NoFile)
            => (ev'.out = NoPrivkey /\ ~ev'.raised /\ keyfile' = NoFile)
        /\ (ev'.kind = "save_privkey" /\ keyfile = NoFile)
            => (keyfile' # NoFile /\ keyfile' = privkey' /\ ev'.out = "saved")
        /\ (ev'.kind = "save_privkey" /\ keyfile # NoFile)
            => (keyfile' = keyfile /\ ev'.out = "save_failed")
        /\ keyfile # NoFile
            => \/ keyfile' = keyfile
               \/ keyfile' = NoFile /\ ev'.kind \in {"drop", "drop_privkey"}
      ]_vars

\* a save with the file present, the account holding another key than the file
C17_Witness ==
    /\ ev.kind = "save_privkey"
    /\ ev.out = "save_failed"
    /\ keyfile = BadKeyFile
    /\ privkey = NewKey

\* a save that created the file
C17_WitnessCreated ==
    /\ ev.kind = "save_privkey"
    /\ ev.out = "saved"
    /\ ev.pre = NoFile
    /\ keyfile = NewKey

Without(seq, i) == [k \in 1..(Len(seq) - 1) |-> IF k < i THEN seq[k] ELSE seq[k + 1]]

\* C19: when a timer fires and the session its conversation resolves to is
\* ENCRYPTED, no notice is shown (and nothing else happens).
C19_NoNoticeWhenEncrypted ==
    [][ (ev'.kind = "timeout" /\ ev'.jid \in DOMAIN contexts
         /\ contexts[ev'.jid].state = STATE_ENCRYPTED)
            => (added' = <<>> /\ sent' = <<>> /\ contexts' = contexts) ]_vars

\* a timer fired on an encrypted session
C19_Witness ==
    /\ ev.kind = "timeout"
    /\ ev.pre = STATE_ENCRYPTED
    /\ ev.out = "ok"
    /\ added = <<>>

\* C20: a start with a positive timeout adds one timer, for its tab, and
\* leaves the pending ones; only a firing removes a timer, and it removes
\* the one that fired; a firing on a session that is not ENCRYPTED shows
\* exactly one notice, in the timer's tab; and no firing changes a session
\* or sends anything.
C20_OneShotTimers ==
    [][ /\ (ev'.kind = "start" /\ ev'.arg[1] > 0)
            => /\ Len(timers') = Len(timers) + 1
               /\ SubSeq(timers', 1, Len(timers)) = timers
               /\ timers'[Len(timers')].tab = ev'.tab
               /\ timers'[Len(timers')].secs = ev'.arg[1]
        /\ ev'.kind \notin {"start", "timeout"} => timers' = timers
        /\ ev'.kind = "timeout"
            => /\ \E i \in 1..Len(timers) :
                     timers' = Without(timers, i) /\ timers[i].tab = ev'.tab
               /\ \A j \in DOMAIN contexts : j \in DOMAIN contexts' /\ contexts'[j] = contexts[j]
               /\ \A j \in DOMAIN contexts' \ DOMAIN contexts :
                     j = ev'.jid /\ contexts'[j].state = STATE_PLAINTEXT
               /\ sent' = <<>>
               /\ calls' = <<>>
               /\ ev'.pre # STATE_ENCRYPTED => added' = <<Entry(ev'.tab, "timeout", 0, <<>>)>>
      ]_vars

\* a timer fired on a session that never was encrypted, another one pending
C20_Witness ==
    /\ ev.kind = "timeout"
    /\ ev.pre = STATE_PLAINTEXT
    /\ ev.out = "late"
    /\ Len(added) = 1
    /\ Len(timers) = 1

\* a timer fired on a session that was encrypted and that the peer ended
C20_WitnessEnded ==
    /\ ev.kind = "timeout"
    /\ ev.pre = STATE_FINISHED
    /\ ev.out = "late"
    /\ Len(added) = 1

\* C21: a start with a timeout of zero or less arms no timer and shows no
\* 'did not enable' notice, and still sends the probe to the peer; so every
\* pending timer, and every notice of a firing, is of a start with a
\* positive timeout.
C21_NoTimerWithoutTimeout ==
    [][ /\ (ev'.kind = "start" /\ ev'.arg[1] <= 0)
            => /\ timers' = timers
               /\ sent' = <<Wire(ev'.jid, "probe", <<>>)>>
               /\ added' = <<Entry(ev'.tab, "request_sent", 0, <<>>)>>
        /\ \A i \in 1..Len(timers') : timers'[i].secs > 0
      ]_vars

\* a start with a negative timeout, no timer pending
C21_Witness ==
    /\ ev.kind = "start"
    /\ ev.arg = <<-1>>
    /\ timers = <<>>
    /\ \E i \in 1..Len(sent) : sent[i].kind = "probe"

\* the state of the session of name in c, PLAINTEXT when get_context would
\* have to create it
StateOf(c, name) == IF name \in DOMAIN c THEN c[name].state ELSE STATE_PLAINTEXT

C22_WitnessCaptured ==
    /\ ev.kind = "timeout"
    /\ ev.arg = <<BobR1>>
    /\ ev.jid = BobR1
    /\ locked = "r2"

\* the addresses get_context is called with, and the configurations it may read
Addresses == {BobBare, BobR1, BobR2}
Configs == UNION {SessionConfigs(j) : j \in Addresses}

\* C23: the registry is keyed by the full address.  In every state a
\* resolve of an address that has a session returns the registry as it is,
\* whatever the configuration has become; a resolve of one that has none
\* adds a session under that very address and leaves the others; a second
\* resolve changes nothing; and a resolve of another resource of the same
\* bare address leaves the first session alone, the two being two entries.
C23_ResolveExactFullAddress ==
    \A jid \in Addresses : \A cfg \in Configs : \A cfg2 \in Configs :
        LET c1 == get_context(contexts, jid, cfg)
        IN  /\ DOMAIN c1 = DOMAIN contexts \cup {jid}
            /\ \A k \in DOMAIN contexts : c1[k] = contexts[k]
            /\ get_context(c1, jid, cfg2) = c1
            /\ \A other \in Addresses \ {jid} :
                  LET c2 == get_context(c1, other, cfg2)
                  IN  /\ {jid, other} \subseteq DOMAIN c2
                      /\ c2[jid] = c1[jid]
                      /\ Cardinality(DOMAIN c2) = Cardinality(DOMAIN c1 \cup {other})

\* two resources of one bare address hold sessions that differ in state
\* and in policy
C23_Witness ==
    /\ {BobR1, BobR2} \subseteq DOMAIN contexts
    /\ contexts[BobR1].state = STATE_ENCRYPTED
    /\ contexts[BobR2].state = STATE_PLAINTEXT
    /\ contexts[BobR1].log # contexts[BobR2].log
    /\ ev.jid = BobR2

\* C24: every session of the registry carries the policy and the logging
\* flag of a configuration of its address: ALLOW_V2 unless allow_v2 is
\* 'false', ALLOW_V1 only when allow_v1 is 'true', REQUIRE_ENCRYPTION when
\* the encryption policy requires encryption, SEND_TAG and
\* WHITESPACE_START_AKE on, logging as configured; a key outside the flag
\* set reads as false.
C24_SessionCarriesConfiguredPolicy ==
    \A jid \in DOMAIN contexts :
        \E cfg \in SessionConfigs(jid) :
            LET ctx == contexts[jid]
            IN  /\ getPolicy(ctx, "ALLOW_V2") = (cfg.allow_v2 # "false")
                /\ getPolicy(ctx, "ALLOW_V1") = (cfg.allow_v1 = "true")
                /\ getPolicy(ctx, "REQUIRE_ENCRYPTION") = (cfg.encryption_policy = "always")
                /\ getPolicy(ctx, "SEND_TAG")
                /\ getPolicy(ctx, "WHITESPACE_START_AKE")
                /\ ctx.log = (IF cfg.log # "false" THEN 1 ELSE 0)
                /\ ~getPolicy(ctx, "ALLOW_V3")

\* the bare addresses a scan is asked for
BareNames == {"bob", "eve"}

\* the encrypted sessions of the bare address in the registry c
Matching(c, bare_jid) == {j \in DOMAIN c : Bare(j) = bare_jid /\ c[j].state = STATE_ENCRYPTED}

\* C25: whenever the outgoing hook runs, the scan of the registry for a
\* bare address returns a session exactly when the registry holds an
\* encrypted session of that bare address, and the session it returns is
\* one of these; in an unlocked dynamic tab the hook uses the session the
\* scan returned, or none, and the scan adds no session and changes no
\* state.
C25_FallbackReturnsAMatch ==
    [][ ev'.kind = "say" =>
        /\ \A b \in BareNames :
              LET found == find_encrypted_context_with_matching(contexts, b)
              IN  /\ found \subseteq Matching(contexts, b)
                  /\ (found = {}) <=> (Matching(contexts, b) = {})
        /\ (IsDynamic(ev'.tab) /\ locked = NoLock)
            => /\ IF Matching(contexts, Bare(TabName(ev'.tab))) = {}
                  THEN ev'.jid = NoJid
                  ELSE ev'.jid \in Matching(contexts, Bare(TabName(ev'.tab)))
               /\ DOMAIN contexts' = DOMAIN contexts
               /\ \A j \in DOMAIN contexts : contexts'[j].state = contexts[j].state
      ]_vars

\* a message typed in the unlocked tab while two sessions of the peer are
\* encrypted went out through one of them
C25_Witness ==
    /\ ev.kind = "say"
    /\ locked = NoLock
    /\ ev.out = "sent"
    /\ Cardinality(Matching(contexts, "bob")) = 2
    /\ ev.jid \in Matching(contexts, "bob")

\* no session is encrypted: the scan returned none
C25_WitnessNone ==
    /\ ev.kind = "say"
    /\ locked = NoLock
    /\ ev.jid = NoJid
    /\ DOMAIN contexts # {}

\* the number of setState calls made for the session j
CallsFor(cs, j) == Cardinality({i \in 1..Len(cs) : cs[i].peer = j})

\* C26: cleanup disconnects every session of the registry, whatever its
\* state: one setState call to PLAINTEXT each, no session ENCRYPTED (nor
\* FINISHED) afterwards, an 'ended' notice only for sessions that were
\* ENCRYPTED.  Disconnecting is idempotent: a session that was PLAINTEXT
\* stays as it was, a second disconnect of a session changes no state and
\* adds no notice and no message, and so does a second cleanup.
C26_TeardownDisconnectsAll ==
    [][ ev'.kind = "cleanup" =>
          /\ DOMAIN contexts' = DOMAIN contexts
          /\ \A j \in DOMAIN contexts :
                /\ contexts'[j].state = STATE_PLAINTEXT
                /\ CallsFor(calls', j) = 1
                /\ \E i \in 1..Len(calls') :
                      calls'[i].peer = j /\ calls'[i].old = contexts[j].state
                      /\ calls'[i].new = STATE_PLAINTEXT
                /\ contexts[j].state = STATE_PLAINTEXT => contexts'[j] = contexts[j]
                /\ LET w1 == disconnect(World(contexts), j)
                       w2 == disconnect(w1, j)
                   IN  /\ w2.ctxs = w1.ctxs
                       /\ w2.added = w1.added
                       /\ w2.sent = w1.sent
          /\ \A i \in 1..Len(added') : added'[i].kind = "ended"
          /\ Len(added') <= Cardinality({j \in DOMAIN contexts :
                                           contexts[j].state = STATE_ENCRYPTED})
          /\ Len(sent') = Cardinality({j \in DOMAIN contexts :
                                         contexts[j].state = STATE_ENCRYPTED})
          /\ ev.kind = "cleanup" => (contexts' = contexts /\ added' = <<>> /\ sent' = <<>>)
      ]_vars

\* a cleanup that ended an encrypted session, with its notice, and
\* disconnected a finished one
C26_Witness ==
    /\ ev.kind = "cleanup"
    /\ \E i \in 1..Len(calls) : calls[i].old = STATE_ENCRYPTED
    /\ \E i \in 1..Len(calls) : calls[i].old = STATE_FINISHED
    /\ \E i \in 1..Len(added) : added[i].kind = "ended"

\* a second cleanup: every session was disconnected already
C26_WitnessSecond ==
    /\ ev.kind = "cleanup"
    /\ Len(calls) = 2
    /\ \A i \in 1..Len(calls) : calls[i].old = STATE_PLAINTEXT
    /\ \E j \in DOMAIN contexts : contexts[j].key # NoKey
    /\ added = <<>>

C27_WitnessLocked ==
    /\ ev.kind = "end"
    /\ locked = "r1"
    /\ ev.jid = BobR1
    /\ ev.pre = STATE_ENCRYPTED
    /\ contexts[BobR1].state = STATE_PLAINTEXT

\* the sessions a step added to the registry
NewSessions == DOMAIN contexts' \ DOMAIN contexts

\* C28, as claimed: a session appears only with an incoming message from its
\* address, an outgoing message to it or a start for it, and an outgoing
\* message to an address without a session creates the session.
C28_LazyByTrafficOrStart ==
    [][ /\ \A j \in NewSessions : ev'.kind \in {"msg", "say", "start"} /\ ev'.jid = j
        /\ (ev'.kind = "say" /\ ResolvedName(ev'.tab) \notin DOMAIN contexts)
              => ResolvedName(ev'.tab) \in DOMAIN contexts'
      ]_vars

\* C28, amended: the registry is empty when the plugin is loaded; a session
\* appears only in a handler that resolves its address through get_context
\* (an incoming message from it, /otr start, end, trust or untrust in its
\* conversation, the status element of its conversation, the callback of a
\* timeout), one at a time and under the address that handler resolved; the
\* outgoing hook creates none.
C28_LazyByResolve ==
    [][ /\ \A j \in NewSessions :
              /\ ev'.kind \in {"msg", "start", "end", "trust", "untrust", "status", "timeout"}
              /\ ev'.jid = j
              /\ contexts'[j].log \in {0, 1}
        /\ ev'.kind = "say" => DOMAIN contexts' = DOMAIN contexts
        /\ ev'.kind = "init" => DOMAIN contexts' = {}
      ]_vars

\* a message typed to a peer without a session left the registry empty
C28_Witness ==
    /\ ev.kind = "say"
    /\ ev.jid = NoJid
    /\ DOMAIN contexts = {}

\* the first session of the registry was made by /otr end
C28_WitnessEnd ==
    /\ ev.kind = "end"
    /\ DOMAIN contexts = {ev.jid}
    /\ ev.pre = STATE_PLAINTEXT
    /\ calls # <<>>

\* C29: a 'started' or 'refreshed' notice says trusted exactly when the trust
\* table holds a label other than the empty one for the fingerprint the
\* session negotiated, under the bare address of the session's peer; else
\* it says untrusted and carries that fingerprint.
C29_NoticeFlavourFollowsTrust ==
    \A i \in 1..Len(added) :
        (ev.kind = "msg" /\ added[i].kind \in {"started", "refreshed"}) =>
            LET key == contexts[ev.jid].key
                k == <<Bare(ev.jid), key>>
            IN  /\ key # NoKey
                /\ added[i].arg = IF k \in DOMAIN trusts /\ trusts[k] # ""
                                  THEN <<"trusted">>
                                  ELSE <<"untrusted", key>>

\* a session started with a trusted fingerprint
C29_Witness ==
    /\ ev.kind = "msg"
    /\ \E i \in 1..Len(added) : added[i].kind = "started" /\ added[i].arg = <<"trusted">>

\* a session refreshed after the fingerprint was untrusted: the table holds
\* the empty label
C29_WitnessUntrusted ==
    /\ ev.kind = "msg"
    /\ <<"bob", PeerKey>> \in DOMAIN trusts
    /\ trusts[<<"bob", PeerKey>>] = ""
    /\ \E i \in 1..Len(added) :
          added[i].kind = "refreshed" /\ added[i].arg = <<"untrusted", PeerKey>>

\* the trust the session of j sees in the table tr
Seen(tr, c, j) == getCurrentTrust(tr, j, c[j])

\* C30: when a trust or untrust command changes the table through the
\* session of one resource, every session of the same bare address with the
\* same fingerprint sees the new label, and every session of another bare
\* address or with another fingerprint sees what it saw before; and in
\* every state two sessions of one bare address with one fingerprint see
\* the same label.
C30_TrustIsScopedToBareAddress ==
    [][ /\ (ev'.kind \in {"trust", "untrust"} /\ ev'.out = "saved") =>
              \A j \in DOMAIN contexts' :
                  IF Bare(j) = Bare(ev'.jid) /\ contexts'[j].key = contexts'[ev'.jid].key
                  THEN Seen(trusts', contexts', j)
                          = (IF ev'.kind = "trust" THEN VERIFIED ELSE UntrustLabel)
                  ELSE Seen(trusts', contexts', j) = Seen(trusts, contexts, j)
        /\ \A j \in DOMAIN contexts' : \A k \in DOMAIN contexts' :
              (Bare(j) = Bare(k) /\ contexts'[j].key = contexts'[k].key)
                  => Seen(trusts', contexts', j) = Seen(trusts', contexts', k)
      ]_vars

\* trust typed for bob/r1: bob/r2 with the same fingerprint sees it, eve/r1
\* with the same fingerprint does not
C30_Witness ==
    /\ ev.kind = "trust" /\ ev.out = "saved" /\ ev.jid = BobR1
    /\ {BobR2, EveR1} \subseteq DOMAIN contexts
    /\ contexts[BobR2].key = PeerKey
    /\ contexts[EveR1].key = PeerKey
    /\ Seen(trusts, contexts, BobR2) = VERIFIED
    /\ Seen(trusts, contexts, EveR1) = ""

\* trust typed for bob/r1: bob/r2 with another fingerprint does not see it
C30_WitnessOtherKey ==
    /\ ev.kind = "trust" /\ ev.out = "saved" /\ ev.jid = BobR1
    /\ BobR2 \in DOMAIN contexts
    /\ contexts[BobR2].key = OtherKey
    /\ Seen(trusts, contexts, BobR1) = VERIFIED
    /\ Seen(trusts, contexts, BobR2) = ""

(***************************************************************************)
(* C31: the failures of the key store and of the trust store               *)
(***************************************************************************)
\* the handler that ran last met a failure of the key file or the trust file
StoreFailed ==
    \/ ev.kind \in {"save", "trust", "save_privkey"} /\ ev.out = "save_failed"
    \/ ev.kind = "drop_privkey" /\ ev.out = "remove_failed"
    \/ ev.kind = "load_privkey" /\ ev.out = NoPrivkey
    \/ ev.kind = "init" /\ ev.arg = NoTrustFile

Warned == \E i \in 1..Len(added) : added[i].kind = "information"

\* C31: a handler that meets a failure of load_privkey, save_privkey,
\* drop_privkey, load_trusts or save_trusts raises nothing to its caller and
\* surfaces the failure to the user as a warning.
C31_StoreFailureIsSurfaced == [][ StoreFailed' => (~ev'.raised /\ Warned') ]_vars

\* what the code does: the failure never leaves the handler, and the one
\* warning is that of a load of the plugin that cannot make the folder
C31_StoreFailureIsCaught ==
    [][ /\ StoreFailed' => ~ev'.raised
        /\ Warned' <=> (ev'.kind = "init" /\ ev'.out = "no_folder") ]_vars

C31_WitnessSilent ==
    /\ ev.kind = "trust" /\ ev.out = "save_failed"
    /\ Len(added) = 1 /\ added[1].kind = "trust_added"
    /\ trustfile = NoTrustFile

C31_WitnessFolder == ev.kind = "init" /\ ev.out = "no_folder" /\ added = <<FolderWarning>>


\* C32: an exception the engine raises while the outgoing hook encrypts a
\* message of an ENCRYPTED session does not leave the hook, which adds one
\* generic notice for it.
C32_SayFailureIsCaught ==
    (ev.kind = "say" /\ ev.pre = STATE_ENCRYPTED /\ ev.out = "Exception") =>
        /\ ~ev.raised
        /\ Len(added) = 1
        /\ added[1].kind = "plugin_error"

\* what the code does: the exception leaves the hook, which has added and
\* sent nothing and leaves the stanza with its plaintext body
C32_SayFailurePropagates ==
    (ev.kind = "say" /\ ev.pre = STATE_ENCRYPTED /\ ev.out = "Exception") =>
        /\ ev.raised
        /\ added = <<>>
        /\ sent = <<>>
        /\ stanza = ev.inp

(***************************************************************************)
(* C33: the formatting of decrypted text                                   *)
(***************************************************************************)
\* the text the ordered policy of the claim delivers for txt
Policy(txt, opts) ==
    IF opts.decode_xhtml /\ XhtmlValid(txt)
    THEN xhtml_to_poezio_colors(txt)
    ELSE [i \in 1..Len(txt) |->
            LET t1 == IF opts.decode_entities THEN UnescapeToken(txt[i]) ELSE txt[i]
            IN  IF opts.decode_newlines THEN NewlineToken(t1) ELSE t1]

\* C33: a decrypted text is delivered as the result of the rich-text
\* conversion when that option is on and the conversion succeeds, with no
\* further step; when the conversion fails or the option is off, as the
\* text with its entities unescaped if that option is on and then its
\* line-break tags turned into newlines if that option is on.
C33_FormattingFollowsPolicy ==
    (ev.kind = "msg" /\ ev.out = "text" /\ ev.arg # <<>>) =>
        /\ Len(OwnEntries) = 1
        /\ OwnEntries[1].kind = "message"
        /\ OwnEntries[1].arg = Policy(ev.arg, ev.opts)

\* the conversion fails and both steps of the fallback run, in their order
C33_Witness ==
    /\ ev.kind = "msg" /\ ev.out = "text" /\ ev.arg = Broken
    /\ ev.opts = DefaultOpts
    /\ Len(added) = 1 /\ added[1].arg = <<"\n", "\n">>

\* the conversion succeeds and nothing is done to its result
C33_WitnessRich ==
    /\ ev.kind = "msg" /\ ev.out = "text" /\ ev.arg = Markup
    /\ ev.opts = DefaultOpts
    /\ Len(added) = 1 /\ added[1].arg = <<"<br>", "\n">>

\* the option is off, and so is the unescaping: only the tags are turned
C33_WitnessOff ==
    /\ ev.kind = "msg" /\ ev.out = "text" /\ ev.arg = Markup
    /\ ~ev.opts.decode_xhtml /\ ~ev.opts.decode_entities /\ ev.opts.decode_newlines
    /\ Len(added) = 1 /\ added[1].arg = <<"&lt;br&gt;", "\n">>

\* C34: a handler that posts a state-transition notice to a conversation
\* leaves that conversation's attention state 'private' when it was not
\* 'current', and no handler of the plugin takes a conversation out of
\* 'current' (only the user does, by moving the focus).
C34_NoticeHighlightsUnlessCurrent ==
    [][ /\ \A i \in 1..Len(added') :
              IsStateNotice(added'[i]) =>
                  tabstate'[added'[i].tab] =
                      (IF tabstate[added'[i].tab] = "current" THEN "current" ELSE "private")
        /\ ev'.kind \notin {"focus", "unfocus"} =>
              \A t \in AllTabs : tabstate[t] = "current" => tabstate'[t] = "current" ]_vars

\* a notice in a conversation the user has left
C34_Witness ==
    /\ \E i \in 1..Len(added) : added[i].kind = "started" /\ added[i].tab = "dyn"
    /\ tabstate["dyn"] = "private"

\* a notice in the focused conversation
C34_WitnessCurrent ==
    /\ \E i \in 1..Len(added) : added[i].kind = "ended" /\ added[i].tab = "dyn"
    /\ tabstate["dyn"] = "current"

\* the end command ran in an unlocked dynamic tab and its scan found no
\* encrypted session of the bare address
EndWithoutMatch == ev.kind = "end" /\ ev.arg = NoJid

\* C35: the end command in an unlocked dynamic conversation, when no
\* session of the bare address is ENCRYPTED once the resolved session is
\* disconnected, raises no error and changes no other session.
C35_EndWithoutMatchCompletes ==
    [][ EndWithoutMatch' =>
            /\ ~ev'.raised
            /\ \A j \in DOMAIN contexts : j # ev'.jid => contexts'[j] = contexts[j] ]_vars

\* what the code does: the resolved session is disconnected, no other
\* session changes, and the command ends with the AttributeError of
\* None.disconnect()
C35_EndWithoutMatchRaises ==
    [][ EndWithoutMatch' =>
            /\ ev'.raised /\ ev'.out = "AttributeError"
            /\ contexts'[ev'.jid].state = STATE_PLAINTEXT
            /\ \A j \in DOMAIN contexts : j # ev'.jid => contexts'[j] = contexts[j] ]_vars

C35_WitnessRaised == EndWithoutMatch /\ ev.raised /\ ev.pre = STATE_PLAINTEXT

\* the encrypted sessions of the bare address b in the registry c
EncryptedOf(c, b) == {j \in DOMAIN c : Bare(j) = b /\ c[j].state = STATE_ENCRYPTED}

\* C36: in a dynamic conversation with no pinned resource the outgoing hook
\* encrypts if and only if some session of the conversation's bare address
\* is ENCRYPTED, and with one of those sessions; in a conversation pinned
\* to a resource it encrypts if and only if the session of exactly that
\* full address is ENCRYPTED, and with that session: otherwise the message
\* goes on unmodified, whatever the sessions of other resources are.
C36_SaySelectsSession ==
    [][ ev'.kind = "say" =>
            LET enc == EncryptedOf(contexts, Bare(TabName(ev'.tab)))
                pinned == <<Bare(TabName(ev'.tab)), locked>>
                encrypts == ev'.out # "pass"
            IN  /\ locked = NoLock => /\ encrypts <=> enc # {}
                                      /\ encrypts => ev'.jid \in enc
                /\ locked # NoLock => /\ encrypts <=> pinned \in enc
                                      /\ encrypts => ev'.jid = pinned
                /\ ~encrypts => (stanza' = ev'.inp /\ sent' = <<>> /\ added' = <<>>) ]_vars

\* pinned to r1 while only the session of r2 is encrypted: sent unmodified
C36_Witness ==
    /\ ev.kind = "say" /\ ev.out = "pass" /\ locked = "r1"
    /\ BobR2 \in DOMAIN contexts /\ contexts[BobR2].state = STATE_ENCRYPTED
    /\ stanza = ev.inp /\ stanza.body # Absent

\* not pinned: the session of a resource is the fallback
C36_WitnessFallback ==
    /\ ev.kind = "say" /\ ev.out = "sent" /\ locked = NoLock
    /\ ev.jid = BobR2 /\ stanza.body = Absent

\* C37: every entry a handler adds for a session whose logging flag is 0 -
\* the notices of its state changes, and the warnings, the decrypted
\* message and the copy of the encrypted outgoing message of the hooks that
\* ran on it - has typ 0, and the logging flag of a session is what it was
\* when the session was created.
C37_UnloggedSessionLogsNothing ==
    [][ LET due == Noticed(SelectSeq(calls', LAMBDA c : c.tab # NoTab))
            notices == SelectSeq(added', IsStateNotice)
            own == SelectSeq(added', LAMBDA e : ~IsStateNotice(e))
        IN  /\ Len(notices) = Len(due)
            /\ \A i \in 1..Len(due) :
                  contexts'[due[i].peer].log = 0 => notices[i].typ = 0
            /\ (ev'.jid \in DOMAIN contexts' /\ contexts'[ev'.jid].log = 0) =>
                  \A i \in 1..Len(own) : own[i].typ = 0
            /\ \A j \in DOMAIN contexts \cap DOMAIN contexts' :
                  contexts'[j].log = contexts[j].log ]_vars

\* a decrypted message of a session that is not logged
C37_Witness ==
    /\ ev.kind = "msg" /\ ev.out = "text" /\ ev.arg # <<>>
    /\ contexts[ev.jid].log = 0
    /\ Len(added) = 1 /\ added[1].kind = "message" /\ added[1].typ = 0

\* the same of a session that is logged
C37_WitnessLogged ==
    /\ ev.kind = "msg" /\ ev.out = "text" /\ ev.arg # <<>>
    /\ contexts[ev.jid].log = 1
    /\ Len(added) = 1 /\ added[1].kind = "message" /\ added[1].typ = 1

\* a notice and an outgoing copy of a session that is not logged
C37_WitnessSay ==
    /\ ev.kind = "say" /\ ev.out = "sent" /\ contexts[ev.jid].log = 0
    /\ Len(added) = 1 /\ added[1].kind = "own" /\ added[1].typ = 0

\* the conversation open for the session of peer: the tab named by the
\* exact address, else the dynamic tab of the bare address when it is
\* locked to the peer's resource, else none
OpenFor(peer) ==
    IF \E t \in AllTabs : TabName(t) = peer
    THEN CHOOSE t \in AllTabs : TabName(t) = peer
    ELSE IF \E t \in AllTabs : IsDynamic(t) /\ TabName(t) = BareJid(peer) /\ locked = Resource(peer)
    THEN CHOOSE t \in AllTabs : IsDynamic(t) /\ TabName(t) = BareJid(peer)
    ELSE NoTab

\* C38: every setState call is committed - the session ends in the state
\* the last call asked for, whether or not a conversation is open for it -
\* and looks for the conversation of the exact peer address, else the
\* dynamic conversation locked to the peer's resource; the notices of a
\* handler are those of the calls that found one, each in the conversation
\* found, and a call that found none (the dynamic conversation locked to
\* another resource included) adds no notice and redraws nothing.
C38_StateCommittedWithoutTab ==
    [][ /\ \A j \in DOMAIN contexts' :
              Chained(IF j \in DOMAIN contexts THEN contexts[j].state ELSE STATE_PLAINTEXT,
                      CallsOf(calls', j), contexts'[j].state)
        /\ \A i \in 1..Len(calls') :
              /\ calls'[i].tab = OpenFor(calls'[i].peer)
              /\ calls'[i].redraw <=> calls'[i].tab # NoTab
        /\ LET due == Noticed(SelectSeq(calls', LAMBDA c : c.tab # NoTab))
                notices == SelectSeq(added', IsStateNotice)
            IN  /\ Len(notices) = Len(due)
                /\ \A i \in 1..Len(due) : notices[i].tab = due[i].tab ]_vars

\* a session becomes ENCRYPTED while the dynamic tab is locked to another
\* resource: no notice
C38_Witness ==
    /\ ev.kind = "msg" /\ ev.jid = BobR2 /\ locked = "r1"
    /\ Len(calls) = 1 /\ calls[1].tab = NoTab /\ calls[1].old = STATE_PLAINTEXT
    /\ ~calls[1].redraw
    /\ contexts[BobR2].state = STATE_ENCRYPTED
    /\ added = <<>>

\* the conversation of the exact address
C38_WitnessExact ==
    /\ ev.kind = "msg" /\ ev.jid = EveR1
    /\ Len(calls) = 1 /\ calls[1].tab = "eve"
    /\ Len(added) = 1 /\ added[1].kind = "started" /\ added[1].tab = "eve"

\* the dynamic conversation locked to the peer's resource
C38_WitnessLocked ==
    /\ ev.kind = "msg" /\ ev.jid = BobR2 /\ locked = "r2"
    /\ Len(calls) = 1 /\ calls[1].tab = "dyn" /\ calls[1].old = STATE_ENCRYPTED
    /\ Len(added) = 1 /\ added[1].kind = "refreshed" /\ added[1].tab = "dyn"

(***************************************************************************)
(* C39: the registry                                                       *)
(***************************************************************************)
\* the key exchange that completes, as a peer sends it
Handshake == Body("ake", <<>>, TRUE, TRUE, FALSE)

\* C39: a session that is in the registry stays in it through every
\* operation, with the flags and the logging flag it was created with;
\* resolving its address again returns the registry as it is, whatever is
\* configured by then; and a session that is PLAINTEXT, after an end as
\* well, becomes ENCRYPTED when a key exchange with its peer completes.
C39_RegistryNeverShrinks ==
    [][ /\ \A j \in DOMAIN contexts :
              /\ j \in DOMAIN contexts'
              /\ contexts'[j].flags = contexts[j].flags
              /\ contexts'[j].log = contexts[j].log
        /\ \A j \in DOMAIN contexts' :
              /\ \A cfg \in SessionConfigs(j) : get_context(contexts', j, cfg) = contexts'
              /\ (contexts'[j].state = STATE_PLAINTEXT /\ getPolicy(contexts'[j], "ALLOW_V2")) =>
                    receiveMessage([ctxs |-> contexts', ts |-> tabstate', added |-> <<>>,
                                    sent |-> <<>>, calls |-> <<>>, redraw |-> FALSE,
                                    privkey |-> privkey', keyfile |-> keyfile'],
                                   j, Handshake, FALSE).w.ctxs[j].state = STATE_ENCRYPTED ]_vars

\* a session that was ENCRYPTED is ended and stays in the registry
C39_Witness ==
    /\ ev.kind = "end" /\ ev.pre = STATE_ENCRYPTED
    /\ ev.jid \in DOMAIN contexts
    /\ contexts[ev.jid].state = STATE_PLAINTEXT /\ contexts[ev.jid].key = PeerKey

\* the unloading of the plugin leaves the sessions in the registry
C39_WitnessTeardown ==
    /\ ev.kind = "cleanup" /\ Len(calls) = 3
    /\ DOMAIN contexts = {BobBare, BobR1, BobR2}

\* a timer fires for a session that was ended
C39_WitnessTimeout ==
    /\ ev.kind = "timeout" /\ ev.out = "late"
    /\ contexts[ev.jid].key = PeerKey

\* C40: in the handling of one incoming message the notices of the state
\* changes the message caused come before the entry the hook adds itself
\* (the delivered text or a warning), and the hook adds at most one entry
\* of its own.
C40_NoticeBeforeOwnOutput ==
    ev.kind = "msg" =>
        /\ Len(OwnEntries) <= 1
        /\ added = StateNotices \o OwnEntries
        /\ \A i \in 1..Len(OwnEntries) : OwnEntries[i].tab = ev.tab

\* a message that carries the end of the session with a last text: the
\* notice, then the text
C40_Witness ==
    /\ ev.kind = "msg" /\ ev.out = "text" /\ ev.arg = <<"a">>
    /\ Len(added) = 2
    /\ added[1].kind = "ended"
    /\ added[2].kind = "message"

====
